---- MODULE Spec2Model ----
(***************************************************************************)
(* Amount pipeline and EIP-712 order hashing of opinion-labs-sdk-go.       *)
(*                                                                         *)
(* Numbers.  Go's math/big values are unbounded, so they are modelled the  *)
(* way big.nat stores them: a little-endian sequence of words, here words  *)
(* 0..999, with no most-significant zero word (the empty sequence is 0).   *)
(* A big.Int is [neg, abs].  Strings are sequences of one-character        *)
(* strings, so that String() and SetString() are real conversions between  *)
(* a value and its text.  The operators avoid deep recursion: carries and  *)
(* borrows are found by looking back for the word that generates them.     *)
(*                                                                         *)
(* float64.  A float64 is written in one of two exact ways, whichever the  *)
(* code reads: the shortest decimal that strconv.FormatFloat(x,'f',-1,64)  *)
(* prints (digits d, decimal point position dp: 0.d1d2.. * 10^dp), or the  *)
(* binary value mant / 2^exp2 that big.Float.SetFloat64 takes over.        *)
(***************************************************************************)
EXTENDS Integers, Sequences, FiniteSets, TLC

VARIABLES fn, in, pc, out

vars == <<fn, in, pc, out>>

(***************************************************************************)
(* math/big: nat arithmetic on little-endian words 0..999.                 *)
(***************************************************************************)
SetMax(S) == CHOOSE x \in S : \A y \in S : y <= x

natNorm(a) ==
    IF a = <<>> THEN <<>>
    ELSE LET nz == {i \in 1..Len(a) : a[i] # 0}
         IN  IF nz = {} THEN <<>> ELSE SubSeq(a, 1, SetMax(nz))

natCmp(a, b) ==
    IF Len(a) < Len(b) THEN -1
    ELSE IF Len(a) > Len(b) THEN 1
    ELSE LET d == {i \in 1..Len(a) : a[i] # b[i]}
         IN  IF d = {} THEN 0
             ELSE IF a[SetMax(d)] < b[SetMax(d)] THEN -1 ELSE 1

natWord(a, i) == IF i <= Len(a) THEN a[i] ELSE 0

\* the carry into word i: some lower word overflows and every word between
\* it and i is 999
natAdd(a, b) ==
    IF a = <<>> THEN b
    ELSE IF b = <<>> THEN a
    ELSE LET n == IF Len(a) > Len(b) THEN Len(a) ELSE Len(b)
             s == [i \in 1..n |-> natWord(a, i) + natWord(b, i)]
             c == [i \in 1..(n + 1) |->
                      IF \E j \in 1..(i - 1) :
                             s[j] >= 1000
                             /\ \A k \in (j + 1)..(i - 1) : s[k] = 999
                      THEN 1 ELSE 0]
         IN  natNorm([i \in 1..(n + 1) |->
                         IF i <= n THEN (s[i] + c[i]) % 1000 ELSE c[i]])

\* a - b for a >= b; the borrow into word i is found the same way
natSub(a, b) ==
    IF a = <<>> \/ b = <<>> THEN a
    ELSE LET n == Len(a)
             c == [i \in 1..n |->
                      IF \E j \in 1..(i - 1) :
                             a[j] < natWord(b, j)
                             /\ \A k \in (j + 1)..(i - 1) : a[k] = natWord(b, k)
                      THEN 1 ELSE 0]
         IN  natNorm([i \in 1..n |->
                         (a[i] - natWord(b, i) - c[i] + 1000) % 1000])

\* a * 1000^k and floor(a / 1000^k)
natShl(a, k) == IF a = <<>> THEN <<>> ELSE [i \in 1..k |-> 0] \o a

natShr(a, k) == IF k >= Len(a) THEN <<>> ELSE SubSeq(a, k + 1, Len(a))

\* a * w for a word w: the low and the high halves of the word products
natMulWord(a, w) ==
    IF a = <<>> \/ w = 0 THEN <<>>
    ELSE natAdd(natNorm([i \in 1..Len(a) |-> (a[i] * w) % 1000]),
                natShl(natNorm([i \in 1..Len(a) |-> (a[i] * w) \div 1000]), 1))

\* a * (b[lo] + b[lo+1]*1000 + ... ), the words lo..hi of b, by halves
RECURSIVE natMulRange(_, _, _, _)
natMulRange(a, b, lo, hi) ==
    IF lo = hi THEN natMulWord(a, b[lo])
    ELSE LET mid == (lo + hi) \div 2
             x   == natMulRange(a, b, lo, mid)
             y   == natMulRange(a, b, mid + 1, hi)
         IN  natAdd(x, natShl(y, mid + 1 - lo))

natMul(a, b) ==
    IF a = <<>> \/ b = <<>> THEN <<>>
    ELSE IF Len(a) >= Len(b) THEN natMulRange(a, b, 1, Len(b))
    ELSE natMulRange(b, a, 1, Len(a))

\* the value of the words of a from word i up (at most three of them)
natTop(a, i) ==
    natWord(a, i) + 1000 * natWord(a, i + 1) + 1000000 * natWord(a, i + 2)

IntMin(m, n) == IF m < n THEN m ELSE n

\* the largest w in lo..hi with w*b <= r, which lo is known to satisfy
natQuoWordIn(r, b, lo, hi) ==
    SetMax({w \in lo..hi : w = lo \/ natCmp(natMulWord(b, w), r) <= 0})

\* the quotient word is tr/tb, up to the parts of r and b below word i
natQuoWordNear(r, b, tr, tb) ==
    natQuoWordIn(r, b, IntMin(999, tr \div (tb + 1)),
                 IntMin(999, (tr + 1) \div tb))

\* floor(r / b) for b <= r < 1000*b, estimated from the two highest words
\* of b and the words of r at the same places
natQuoWord(r, b) ==
    IF Len(b) = 1 THEN natTop(r, 1) \div b[1]
    ELSE natQuoWordNear(r, b, natTop(r, Len(b) - 1), natTop(b, Len(b) - 1))

RECURSIVE natDivMod(_, _)
\* the quotient hq of the high words followed by the quotient l.q of what
\* they left and the m low words
natDivModLow(m, hq, l) ==
    IF l.q = <<>> THEN [q |-> natShl(hq, m), r |-> l.r]
    ELSE [q |-> natAdd(natShl(hq, m), l.q), r |-> l.r]

\* h is the quotient and remainder of the words of a above the m low ones;
\* what is left to divide is the remainder h.r followed by those low words
natDivModHigh(a, b, m, h) ==
    IF h.r = <<>>
    THEN natDivModLow(m, h.q, natDivMod(natNorm(SubSeq(a, 1, m)), b))
    ELSE natDivModLow(m, h.q, natDivMod(SubSeq(a, 1, m) \o h.r, b))

natDivModWord(a, b, w) == [q |-> <<w>>, r |-> natSub(a, natMulWord(b, w))]

\* division by b # 0: [q, r] with a = q*b + r and r < b.  A quotient of
\* one word is searched; a longer one is the quotient of the high words
\* followed by the quotient of what they leave and the low words.
natDivMod(a, b) ==
    IF natCmp(a, b) < 0 THEN [q |-> <<>>, r |-> a]
    ELSE IF natCmp(a, natShl(b, 1)) < 0
    THEN natDivModWord(a, b, natQuoWord(a, b))
    ELSE natDivModHigh(a, b, (Len(a) - Len(b) + 1) \div 2,
                       natDivMod(natShr(a, (Len(a) - Len(b) + 1) \div 2), b))

natFromInt(n) ==
    natNorm(<<n % 1000, (n \div 1000) % 1000, (n \div 1000000) % 1000,
              n \div 1000000000>>)

natPow10(k) ==
    [i \in 1..(k \div 3) |-> 0]
        \o <<IF k % 3 = 0 THEN 1 ELSE IF k % 3 = 1 THEN 10 ELSE 100>>

\* 2^(30*j) for j = 0..11, least significant word first
Pow2To30 ==
    <<<<1>>,
      <<824, 741, 73, 1>>,
      <<976, 846, 606, 504, 921, 152, 1>>,
      <<224, 124, 899, 274, 380, 285, 39, 940, 237, 1>>,
      <<576, 344, 280, 60, 807, 903, 872, 915, 784, 995, 227, 329, 1>>,
      <<624, 746, 382, 136, 495, 449, 969, 285, 58, 881, 959, 705,
        692, 247, 427, 1>>,
      <<176, 602, 183, 122, 739, 618, 183, 309, 150, 27, 347, 358,
        858, 888, 865, 540, 495, 532, 1>>,
      <<24, 609, 348, 863, 579, 633, 865, 735, 982, 504, 350, 557,
        182, 969, 154, 42, 206, 321, 557, 504, 645, 1>>,
      <<776, 619, 292, 201, 606, 121, 958, 618, 875, 896, 483, 827,
        515, 918, 742, 500, 297, 583, 329, 384, 778, 64, 847, 766, 1>>,
      <<424, 711, 20, 716, 648, 385, 56, 473, 222, 1, 855, 761, 428,
        975, 267, 682, 342, 382, 18, 787, 819, 545, 188, 64, 590, 137,
        897, 1>>,
      <<376, 397, 183, 706, 336, 763, 299, 381, 354, 449, 140, 636,
        250, 936, 665, 393, 468, 51, 161, 378, 409, 688, 445, 268, 86,
        486, 334, 976, 35, 37, 2>>,
      <<824, 53, 23, 177, 513, 223, 923, 375, 199, 999, 952, 409, 606,
        770, 425, 436, 212, 893, 430, 169, 353, 365, 621, 117, 227,
        502, 372, 924, 11, 783, 724, 250, 187, 2>>>>

\* 2^k for k < 360: a power of 2^30 from the table times what is left
natPow2(k) == natMul(Pow2To30[k \div 30 + 1], natFromInt(2 ^ (k % 30)))

\* the number of decimal digits of a (0 for a = 0)
natDigits(a) ==
    IF a = <<>> THEN 0
    ELSE 3 * (Len(a) - 1)
         + (IF a[Len(a)] >= 100 THEN 3 ELSE IF a[Len(a)] >= 10 THEN 2 ELSE 1)

\* the least k in lo+1 .. lo+4 with a < 2^k, p being 2^lo
natBitLenAbove(a, lo, p) ==
    IF natCmp(a, natMulWord(p, 2)) < 0 THEN lo + 1
    ELSE IF natCmp(a, natMulWord(p, 4)) < 0 THEN lo + 2
    ELSE IF natCmp(a, natMulWord(p, 8)) < 0 THEN lo + 3
    ELSE lo + 4

natBitLenFrom(a, lo) == natBitLenAbove(a, lo, natPow2(lo))

\* big.Int.BitLen: the least k with a < 2^k.  A number of L decimal digits
\* is at least 10^(L-1) >= 2^lo and below 10^L <= 2^(lo+4).
natBitLen(a) ==
    IF a = <<>> THEN 0
    ELSE natBitLenFrom(a, ((natDigits(a) - 1) * 3321) \div 1000)

natIsOdd(a) == a # <<>> /\ a[1] % 2 = 1

(***************************************************************************)
(* math/big: Int.                                                          *)
(***************************************************************************)
NilInt == [nil |-> TRUE]

bigInt(neg, abs) == [neg |-> neg /\ abs # <<>>, abs |-> abs]

NewInt(n) ==
    IF n < 0 THEN bigInt(TRUE, natFromInt(-n)) ELSE bigInt(FALSE, natFromInt(n))

Sign(x) == IF x.abs = <<>> THEN 0 ELSE IF x.neg THEN -1 ELSE 1

Cmp(x, y) ==
    IF x.neg # y.neg THEN (IF x.neg THEN -1 ELSE 1)
    ELSE IF x.neg THEN natCmp(y.abs, x.abs)
    ELSE natCmp(x.abs, y.abs)

DigitChars == <<"0", "1", "2", "3", "4", "5", "6", "7", "8", "9">>

IsDigitChar(c) == \E d \in 1..10 : DigitChars[d] = c

CharValue(c) == (CHOOSE d \in 1..10 : DigitChars[d] = c) - 1

\* decimal digit q (0 = least significant) of a
natDigitAt(a, q) ==
    LET w == natWord(a, q \div 3 + 1)
    IN  IF q % 3 = 0 THEN w % 10
        ELSE IF q % 3 = 1 THEN (w \div 10) % 10
        ELSE w \div 100

\* big.Int.String in base 10: most significant digit first, "-" for negatives
String(x) ==
    IF x.abs = <<>> THEN <<"0">>
    ELSE (IF x.neg THEN <<"-">> ELSE <<>>)
         \o [p \in 1..natDigits(x.abs) |->
                DigitChars[natDigitAt(x.abs, natDigits(x.abs) - p) + 1]]

\* big.Int.SetString(s, 10): an optional sign, then one or more digits;
\* [ok, val]
SetString(s) ==
    LET signed == s # <<>> /\ s[1] \in {"+", "-"}
        body   == IF signed THEN Tail(s) ELSE s
        L      == Len(body)
        dig(q) == IF q < L THEN CharValue(body[L - q]) ELSE 0
    IN  IF body = <<>> \/ \E i \in 1..L : ~IsDigitChar(body[i])
        THEN [ok |-> FALSE, val |-> NilInt]
        ELSE [ok |-> TRUE,
              val |-> bigInt(signed /\ s[1] = "-",
                             natNorm([j \in 1..((L + 2) \div 3) |->
                                         dig(3 * j - 3) + 10 * dig(3 * j - 2)
                                         + 100 * dig(3 * j - 1)]))]

(***************************************************************************)
(* strconv / strings.                                                      *)
(***************************************************************************)
\* A float64 as strconv's shortest decimal: digits d (no leading or
\* trailing zero; none for 0), the decimal point after dp of them.
Dec(neg, d, dp) == [cls |-> "finite", neg |-> neg, d |-> d, dp |-> dp]

NaN == [cls |-> "nan", neg |-> FALSE, d |-> <<>>, dp |-> 0]

Inf(neg) == [cls |-> "inf", neg |-> neg, d |-> <<>>, dp |-> 0]

\* x <= 0 on float64: false for NaN, true for -0 and -Inf
FloatLeqZero(x) ==
    CASE x.cls = "nan" -> FALSE
      [] x.cls = "inf" -> x.neg
      [] OTHER         -> x.neg \/ x.d = <<>>

\* strconv.FormatFloat(x, 'f', -1, 64): the integer digits (padded with
\* zeros up to the decimal point, "0" when there are none), then "." and
\* the Len(d) - dp fraction digits when there are any
FormatFloat(x) ==
    CASE x.cls = "nan" -> <<"N", "a", "N">>
      [] x.cls = "inf" -> <<IF x.neg THEN "-" ELSE "+", "I", "n", "f">>
      [] OTHER ->
           LET nd   == Len(x.d)
               prec == IF nd - x.dp > 0 THEN nd - x.dp ELSE 0
               ch(j) == IF 1 <= j /\ j <= nd THEN DigitChars[x.d[j] + 1] ELSE "0"
           IN  (IF x.neg THEN <<"-">> ELSE <<>>)
               \o (IF x.dp > 0 THEN [i \in 1..x.dp |-> ch(i)] ELSE <<"0">>)
               \o (IF prec > 0
                   THEN <<".">> \o [i \in 1..prec |-> ch(x.dp + i)]
                   ELSE <<>>)

\* strings.Split(s, "."): the pieces between the separators
Split(s) ==
    LET seps   == {i \in 1..Len(s) : s[i] = "."}
        cut(k) == IF k = 0 THEN 0
                  ELSE IF k > Cardinality(seps) THEN Len(s) + 1
                  ELSE CHOOSE i \in seps : Cardinality({j \in seps : j < i}) = k - 1
    IN  [k \in 1..(Cardinality(seps) + 1) |->
            SubSeq(s, cut(k - 1) + 1, cut(k) - 1)]

\* strings.Repeat("0", n)
Repeat0(n) == [i \in 1..n |-> "0"]

(***************************************************************************)
(* Amount utilities.                                                       *)
(***************************************************************************)
MaxDecimals == 18

NoErr == "nil"

maxUint256_Bits255 == bigInt(FALSE, natPow2(255))

\* new(big.Int).Exp(2, 256, nil)
maxUint256 == bigInt(FALSE, natPow2(256))

PadOrTruncate_OffByOne(decimalPart, decimals) ==
    IF Len(decimalPart) > decimals
    THEN SubSeq(decimalPart, 1, decimals + 1)
    ELSE decimalPart \o Repeat0(decimals - Len(decimalPart))

\* decimalPart padded or cut to exactly `decimals` characters
PadOrTruncate(decimalPart, decimals) ==
    IF Len(decimalPart) > decimals
    THEN SubSeq(decimalPart, 1, decimals)
    ELSE decimalPart \o Repeat0(decimals - Len(decimalPart))

SafeAmountToWei(amount, decimals) ==
    IF FloatLeqZero(amount)
    THEN [val |-> NilInt, err |-> "amount must be positive"]
    ELSE IF decimals < 0 \/ decimals > MaxDecimals
    THEN [val |-> NilInt, err |-> "decimals must be between 0 and 18"]
    ELSE
      LET amountStr   == FormatFloat(amount)
          parts       == Split(amountStr)
          integerPart == parts[1]
          decimalPart == IF Len(parts) = 2 THEN parts[2] ELSE <<>>
          combined    == integerPart \o PadOrTruncate(decimalPart, decimals)
          result      == SetString(combined)
      IN  IF Len(parts) > 2
          THEN [val |-> NilInt, err |-> "invalid amount format"]
          ELSE IF ~result.ok
          THEN [val |-> NilInt, err |-> "failed to convert amount to big.Int"]
          ELSE IF Cmp(result.val, maxUint256) >= 0
          THEN [val |-> NilInt, err |-> "amount too large for uint256"]
          ELSE IF Sign(result.val) <= 0
          THEN [val |-> NilInt, err |-> "calculated amount is zero or negative"]
          ELSE [val |-> result.val, err |-> NoErr]

(***************************************************************************)
(* math/big: Int.Div, Int.Mul, and Float as far as the code uses it.       *)
(***************************************************************************)
\* Int.Div(x, y) for y > 0: Euclidean division, the remainder is never
\* negative, so a negative x that y does not divide rounds away from zero
Div(x, y) ==
    LET d == natDivMod(x.abs, y.abs)
    IN  IF x.neg /\ d.r # <<>> THEN bigInt(TRUE, natAdd(d.q, <<1>>))
        ELSE bigInt(x.neg, d.q)

Mul(x, y) == bigInt(x.neg # y.neg, natMul(x.abs, y.abs))

\* a number written in groups of three digits, most significant first
natOf(groups) == natNorm([i \in 1..Len(groups) |-> groups[Len(groups) + 1 - i]])

\* A float64 as the binary value SetFloat64 takes over: mant / 2^exp2,
\* with den the denominator 2^exp2 written out.
Bin(neg, mant, exp2) ==
    [cls |-> "finite", neg |-> neg, mant |-> mant, exp2 |-> exp2,
     den |-> natPow2(exp2)]

BinNaN == [cls |-> "nan", neg |-> FALSE, mant |-> <<>>, exp2 |-> 0, den |-> <<1>>]

BinInf(neg) == [cls |-> "inf", neg |-> neg, mant |-> <<>>, exp2 |-> 0, den |-> <<1>>]

\* x < y on float64 (false when either is NaN)
FloatLess(x, y) ==
    CASE x.cls = "nan" \/ y.cls = "nan" -> FALSE
      [] x.cls = "inf" -> x.neg /\ ~(y.cls = "inf" /\ y.neg)
      [] y.cls = "inf" -> ~y.neg
      [] OTHER ->
           LET xs == bigInt(x.neg, natMul(x.mant, y.den))
               ys == bigInt(y.neg, natMul(y.mant, x.den))
           IN  Cmp(xs, ys) < 0

\* x <= y on float64 (false when either is NaN)
FloatLeq(x, y) == x.cls # "nan" /\ y.cls # "nan" /\ ~FloatLess(y, x)

\* the precision of new(big.Float).SetInt(x): the larger of x.BitLen() and 64
IntMax(m, n) == IF m > n THEN m ELSE n

SetIntPrec(x) == IntMax(natBitLen(x.abs), 64)

natRoundEvenOf(t, d, twoR) ==
    IF natCmp(twoR, d) > 0 \/ (natCmp(twoR, d) = 0 /\ natIsOdd(t.q))
    THEN natAdd(t.q, <<1>>)
    ELSE t.q

natRoundEvenFrom(t, d) == natRoundEvenOf(t, d, natMulWord(t.r, 2))

\* n / d rounded to the nearest integer, ties to even
natRoundEven(n, d) == natRoundEvenFrom(natDivMod(n, d), d)

\* n / d rounded to a multiple of the power of two p
RoundToMultiple(n, d, p) == natMul(natRoundEven(n, natMul(d, p)), p)

\* t is floor(n/d) with its remainder, L the bit length of the quotient
RoundAtBitLen(n, d, prec, t, L) ==
    IF L >= prec
    THEN RoundToMultiple(n, d, natPow2(L - prec))
    ELSE IF natCmp(natMul(natSub(d, t.r), natPow2(prec - L + 1)), d) <= 0
    THEN natAdd(t.q, <<1>>)
    ELSE t.q

RoundQuotient(n, d, prec, t) == RoundAtBitLen(n, d, prec, t, natBitLen(t.q))

\* What Float.Int returns for the Float that Quo or Mul leaves for the
\* exact value n / d > 0: n / d rounded to prec mantissa bits (to nearest,
\* ties to even), then truncated.  With L the bit length of floor(n/d),
\* the mantissa's last bit weighs 2^(L - prec).  For L < prec the mantissa
\* has fraction bits, and truncating it gives floor(n/d) unless the
\* rounding carried into the next integer, which it does exactly when
\* n/d is within 2^(L - prec - 1) of it.
RoundToPrecThenInt(n, d, prec) ==
    IF n = <<>> THEN <<>> ELSE RoundQuotient(n, d, prec, natDivMod(n, d))

\* new(big.Float).Quo(new(big.Float).SetInt(x), price).Int(nil)
QuoInt(x, price) ==
    bigInt(x.neg # price.neg,
           RoundToPrecThenInt(natMul(x.abs, price.den), price.mant,
                              SetIntPrec(x)))

\* new(big.Float).Mul(new(big.Float).SetInt(x), price).Int(nil)
MulInt(x, price) ==
    bigInt(x.neg # price.neg,
           RoundToPrecThenInt(natMul(x.abs, price.mant), price.den,
                              SetIntPrec(x)))

(***************************************************************************)
(* Rounding and order amounts.                                             *)
(***************************************************************************)
OrderSideBuy == 0
OrderSideSell == 1
MakerSigDigits == 4

\* len(s) of a character sequence
StrLen(s) == Len(s)

roundToSignificantDigits_RoundUp(value, n) ==
    IF Sign(value) = 0 THEN NewInt(0)
    ELSE LET magnitude == StrLen(String(value))
             divisor   == bigInt(FALSE, natPow10(magnitude - n))
         IN  IF magnitude <= n THEN value
             ELSE Mul(bigInt(value.neg, natAdd(Div(value, divisor).abs, <<1>>)),
                      divisor)

roundToSignificantDigits(value, n) ==
    IF Sign(value) = 0 THEN NewInt(0)
    ELSE LET magnitude == StrLen(String(value))
             divisor   == bigInt(FALSE, natPow10(magnitude - n))
         IN  IF magnitude <= n THEN value
             ELSE Mul(Div(value, divisor), divisor)

\* the float64 constants 0.001 and 0.999 of the price check
PriceMin == Bin(FALSE, natOf(<<1, 152, 921, 504, 606, 847>>), 60)

PriceMax == Bin(FALSE, natOf(<<8, 998, 192, 55, 486, 251>>), 53)

\* lines 83-101: the taker amount of the rounded maker amount
TakerAmount(maker4Digit, price, side) ==
    IF side = OrderSideBuy
    THEN QuoInt(maker4Digit, price)
    ELSE MulInt(maker4Digit, price)

AtLeastOne_NegativeOnly(x) == IF Sign(x) < 0 THEN NewInt(1) ELSE x

\* lines 104-109: an amount that is zero or negative becomes 1
AtLeastOne(x) == IF Sign(x) <= 0 THEN NewInt(1) ELSE x

Amounts_TakerOfOriginal(maker4Digit, makerAmount, price, side) ==
    [status |-> "done",
     maker |-> AtLeastOne(makerAmount),
     taker |-> AtLeastOne(TakerAmount(makerAmount, price, side)),
     err |-> NoErr]

RecalculatedAmounts(maker4Digit, makerAmount, price, side) ==
    [status |-> "done",
     maker |-> AtLeastOne(maker4Digit),
     taker |-> AtLeastOne(TakerAmount(maker4Digit, price, side)),
     err |-> NoErr]

\* [status, maker, taker, err]: "panic" when big.Float.SetFloat64 is handed
\* a NaN, which the price check lets through (both comparisons are false)
CalculateOrderAmounts(price, makerAmount, side, decimals) ==
    IF FloatLeq(price, PriceMin) \/ FloatLeq(PriceMax, price)
    THEN [status |-> "done", maker |-> NilInt, taker |-> NilInt,
          err |-> "price must be between 0.001 and 0.999"]
    ELSE IF price.cls = "nan"
    THEN [status |-> "panic", maker |-> NilInt, taker |-> NilInt,
          err |-> "ErrNaN"]
    ELSE RecalculatedAmounts(roundToSignificantDigits(makerAmount, MakerSigDigits),
                             makerAmount, price, side)

(***************************************************************************)
(* EIP-712 order hashing.  A 32-byte word is written as the number it     *)
(* holds, big-endian, 0 .. 2^256 - 1; the ABI encoding of the order is the *)
(* sequence of its words.  Keccak-256 of the type string is the word it    *)
(* evaluates to; Keccak-256 of an encoding is kept as a term over its      *)
(* input, so that equal hashes mean equal inputs.                          *)
(***************************************************************************)
\* Keccak256Hash of "Order(uint256 salt,address maker,address signer,
\* address taker,uint256 tokenId,uint256 makerAmount,uint256 takerAmount,
\* uint256 expiration,uint256 nonce,uint256 feeRateBps,uint8 side,
\* uint8 signatureType)": 0xa852566c...7bf9767c
OrderTypeHash ==
    natOf(<<76, 134, 36, 491, 383, 565, 371, 355, 299, 451, 941, 857, 952,
            266, 497, 210, 254, 26, 171, 162, 612, 110, 440, 340, 747, 900>>)

tt256 == natPow2(256)

\* the 256-bit two's complement word of a value with |value| mod 2^256 = m
TwosComplement(neg, m) == IF neg /\ m # <<>> THEN natSub(tt256, m) ELSE m

\* abi packing of a *big.Int as uint256: the value reduced to its low 256
\* bits in two's complement (math.U256Bytes), no range check
PackUint256(x) ==
    IF ~x.neg /\ natCmp(x.abs, tt256) < 0 THEN x.abs
    ELSE TwosComplement(x.neg, natDivMod(x.abs, tt256).r)

\* abi packing of a common.Address: its 20 bytes, left-padded with zeros
PackAddress(a) == a

\* abi packing of a uint8
PackUint8(n) == natFromInt(n)

\* the arguments in the order Pack is given them, one word each
Pack(o) ==
    << OrderTypeHash,
       PackUint256(o.Salt),
       PackAddress(o.Maker),
       PackAddress(o.Signer),
       PackAddress(o.Taker),
       PackUint256(o.TokenID),
       PackUint256(o.MakerAmount),
       PackUint256(o.TakerAmount),
       PackUint256(o.Expiration),
       PackUint256(o.Nonce),
       PackUint256(o.FeeRateBps),
       PackUint8(o.Side),
       PackUint8(o.SignatureType) >>

Keccak256Hash(data) == [keccak256 |-> data]

\* OrderTypedData.Hash: the encoding and its hash
OrderTypedDataHash(o) ==
    LET encoded == Pack(o)
    IN  [encoded |-> encoded, hash |-> Keccak256Hash(encoded)]

(***************************************************************************)
(* Inputs of the amount conversion.                                        *)
(***************************************************************************)
MaxSig == 3
MaxLeadZeros == 2
MaxIntLen == 3
HugeDP == 60
ExtraDecimals == 1

\* the integer that the decimal digits d spell, most significant first
RECURSIVE DigitsValue(_)
DigitsValue(d) ==
    IF d = <<>> THEN 0
    ELSE 10 * DigitsValue(SubSeq(d, 1, Len(d) - 1)) + d[Len(d)]

SigDigits == {0, 1, 9}

\* the shortest-decimal digit strings: no leading and no trailing zero
ShortestDigits ==
    UNION {{d \in [1..n -> SigDigits] : d[1] # 0 /\ d[n] # 0} : n \in 1..MaxSig}

Amounts ==
    {Dec(neg, d, dp) : neg \in BOOLEAN, d \in ShortestDigits,
                       dp \in ((0 - MaxLeadZeros)..MaxIntLen) \cup {HugeDP}}
    \cup {Dec(FALSE, <<>>, 0), Dec(TRUE, <<>>, 0), NaN, Inf(FALSE), Inf(TRUE)}

DecimalsRange == (0 - ExtraDecimals)..(MaxDecimals + ExtraDecimals)

(***************************************************************************)
(* Inputs of the rounding and of the order amount calculation.             *)
(***************************************************************************)
MaxValueLen == 6
MaxN == 5

\* integers of up to MaxValueLen digits, of either sign
RoundValues ==
    {NewInt(0)} \cup
    {bigInt(neg, natFromInt(DigitsValue(d))) :
        neg \in BOOLEAN,
        d \in UNION {{x \in [1..k -> SigDigits] : x[1] # 0} : k \in 1..MaxValueLen}}

PriceBits == 3
MaxSmallMaker == 20
MaxNegMaker == 2

\* the float64 values of these decimal literals
NamedPrices ==
    [p0 |-> Bin(FALSE, <<>>, 0),
     p0_0005 |-> Bin(FALSE, natOf(<<1, 152, 921, 504, 606, 847>>), 61),
     p0_001 |-> Bin(FALSE, natOf(<<1, 152, 921, 504, 606, 847>>), 60),
     p0_0011 |-> Bin(FALSE, natOf(<<5, 72, 854, 620, 270, 127>>), 62),
     p0_002 |-> Bin(FALSE, natOf(<<1, 152, 921, 504, 606, 847>>), 59),
     p0_1875 |-> Bin(FALSE, natOf(<<3>>), 4),
     p0_3 |-> Bin(FALSE, natOf(<<5, 404, 319, 552, 844, 595>>), 54),
     p0_9989 |-> Bin(FALSE, natOf(<<8, 997, 291, 335, 560, 777>>), 53),
     p0_999 |-> Bin(FALSE, natOf(<<8, 998, 192, 55, 486, 251>>), 53),
     p0_9995 |-> Bin(FALSE, natOf(<<4, 501, 347, 827, 556, 811>>), 52),
     p1 |-> Bin(FALSE, natOf(<<1>>), 0),
     neg0_3 |-> Bin(TRUE, natOf(<<5, 404, 319, 552, 844, 595>>), 54),
     nan |-> BinNaN,
     posInf |-> BinInf(FALSE),
     negInf |-> BinInf(TRUE)]

\* the named prices and every i / 2^PriceBits strictly between 0 and 1
Prices ==
    {NamedPrices[k] : k \in DOMAIN NamedPrices}
    \cup {Bin(FALSE, natFromInt(i), PriceBits) : i \in 1..(2^PriceBits - 1)}

MakerMantissas == {2, 15, 12345, 99999}

MakerExps == {0, 6, 19}

MakerAmounts ==
    {NewInt(v) : v \in (0 - MaxNegMaker)..MaxSmallMaker}
    \cup {bigInt(FALSE, natMul(natFromInt(m), natPow10(e))) :
             m \in MakerMantissas, e \in MakerExps}

Sides == {OrderSideBuy, OrderSideSell}

TokenDecimals == {18}

(***************************************************************************)
(* Inputs of the order hashing: OrderTypedData values.  The seven *big.Int *)
(* fields are any integers, the three addresses 20-byte values, the two    *)
(* uint8 fields 0..255.                                                    *)
(***************************************************************************)
MaxField == 1
MaxAddress == 1
MaxUint8Low == 2

BigIntFields ==
    {"Salt", "TokenID", "MakerAmount", "TakerAmount", "Expiration", "Nonce",
     "FeeRateBps"}

AddressFields == {"Maker", "Signer", "Taker"}

Uint8Fields == {"Side", "SignatureType"}

OrderFields == BigIntFields \cup AddressFields \cup Uint8Fields

\* small values, the largest uint256, and values outside the uint256 range
BigIntValues ==
    {NewInt(v) : v \in 0..MaxField}
    \cup {bigInt(FALSE, natSub(tt256, <<1>>)), bigInt(FALSE, tt256), NewInt(-1)}

AddressValues ==
    {natFromInt(a) : a \in 0..MaxAddress} \cup {natSub(natPow2(160), <<1>>)}

Uint8Values == (0..MaxUint8Low) \cup {255}

FieldValues(f) ==
    IF f \in BigIntFields THEN BigIntValues
    ELSE IF f \in AddressFields THEN AddressValues
    ELSE Uint8Values

SomeOrder ==
    [Salt |-> NewInt(1), Maker |-> natFromInt(1), Signer |-> natFromInt(1),
     Taker |-> natFromInt(0), TokenID |-> NewInt(1), MakerAmount |-> NewInt(1),
     TakerAmount |-> NewInt(1), Expiration |-> NewInt(0), Nonce |-> NewInt(0),
     FeeRateBps |-> NewInt(0), Side |-> 0, SignatureType |-> 0]

\* the orders that differ from SomeOrder in at most two fields
Orders ==
    {[SomeOrder EXCEPT ![f] = v, ![g] = w] :
        <<f, v, g, w>> \in
            UNION {UNION {{<<f, v, g, w>> : v \in FieldValues(f), w \in FieldValues(g)} :
                          g \in OrderFields} : f \in OrderFields}}

(***************************************************************************)
(* State: one call of one function.  fn is the function, in its            *)
(* arguments, pc says whether the call is still to run ("call"), has       *)
(* returned ("done") or has panicked ("panic"), out is what it returned.   *)
(***************************************************************************)
None == <<>>

InitWei ==
    /\ fn = "SafeAmountToWei"
    /\ in \in [amount : Amounts, decimals : DecimalsRange]
    /\ pc = "call"
    /\ out = None

CallSafeAmountToWei ==
    /\ fn = "SafeAmountToWei"
    /\ pc = "call"
    /\ out' = SafeAmountToWei(in.amount, in.decimals)
    /\ pc' = "done"
    /\ UNCHANGED <<fn, in>>

NextWei == CallSafeAmountToWei

SpecWei == InitWei /\ [][NextWei]_vars

InitRound ==
    /\ fn = "roundToSignificantDigits"
    /\ in \in [value : RoundValues, n : 1..MaxN]
    /\ pc = "call"
    /\ out = None

CallRoundToSignificantDigits ==
    /\ fn = "roundToSignificantDigits"
    /\ pc = "call"
    /\ out' = roundToSignificantDigits(in.value, in.n)
    /\ pc' = "done"
    /\ UNCHANGED <<fn, in>>

NextRound == CallRoundToSignificantDigits

SpecRound == InitRound /\ [][NextRound]_vars

InitCalc ==
    /\ fn = "CalculateOrderAmounts"
    /\ in \in [price : Prices, makerAmount : MakerAmounts, side : Sides,
               decimals : TokenDecimals]
    /\ pc = "call"
    /\ out = None

CallCalculateOrderAmounts ==
    /\ fn = "CalculateOrderAmounts"
    /\ pc = "call"
    /\ out' = CalculateOrderAmounts(in.price, in.makerAmount, in.side, in.decimals)
    /\ pc' = out'.status
    /\ UNCHANGED <<fn, in>>

NextCalc == CallCalculateOrderAmounts

SpecCalc == InitCalc /\ [][NextCalc]_vars

InitHash ==
    /\ fn = "OrderTypedData.Hash"
    /\ in \in [order : Orders]
    /\ pc = "call"
    /\ out = None

CallOrderTypedDataHash ==
    /\ fn = "OrderTypedData.Hash"
    /\ pc = "call"
    /\ out' = OrderTypedDataHash(in.order)
    /\ pc' = "done"
    /\ UNCHANGED <<fn, in>>

NextHash == CallOrderTypedDataHash

SpecHash == InitHash /\ [][NextHash]_vars

(***************************************************************************)
(* SafeAmountToWei: properties.  The amount is the decimal M * 10^(dp-nd)  *)
(* that the float64 prints as, M the integer its digits spell.             *)
(***************************************************************************)
\* the power of ten that amount * 10^decimals carries beside M
ScaleExp(x, decimals) == x.dp - Len(x.d) + decimals

\* floor(amount * 10^decimals), by arithmetic
ScaledFloor(x, decimals) ==
    LET e == ScaleExp(x, decimals)
        M == natFromInt(DigitsValue(x.d))
    IN  IF e >= 0 THEN natMul(M, natPow10(e))
        ELSE natDivMod(M, natPow10(0 - e)).q

\* whether amount * 10^decimals has a fraction that the floor drops
DropsDigits(x, decimals) ==
    /\ ScaleExp(x, decimals) < 0
    /\ natDivMod(natFromInt(DigitsValue(x.d)),
                 natPow10(0 - ScaleExp(x, decimals))).r # <<>>

WeiReturned == fn = "SafeAmountToWei" /\ pc = "done"

\* C1: whenever SafeAmountToWei succeeds, the result is amount * 10^decimals
\* with the fraction dropped (never rounded up): result = floor(amount *
\* 10^decimals), that is result / 10^decimals <= amount <
\* (result + 1) / 10^decimals.
C1_TruncatesAtDecimals ==
    (WeiReturned /\ out.err = NoErr) =>
        LET e   == ScaleExp(in.amount, in.decimals)
            M   == natFromInt(DigitsValue(in.amount.d))
            v   == out.val.abs
            up  == natAdd(v, <<1>>)
        IN  /\ ~out.val.neg
            /\ v = ScaledFloor(in.amount, in.decimals)
            /\ IF e >= 0
               THEN v = natMul(M, natPow10(e))
               ELSE /\ natCmp(natMul(v, natPow10(0 - e)), M) <= 0
                    /\ natCmp(M, natMul(up, natPow10(0 - e))) < 0

\* C1 witness: a conversion that succeeded and dropped a non-zero digit
C1_Witness ==
    /\ WeiReturned
    /\ out.err = NoErr
    /\ DropsDigits(in.amount, in.decimals)

TwoTo256 == natPow2(256)

\* the inputs SafeAmountToWei must accept: a finite amount > 0, decimals in
\* 0..18, and 1 <= floor(amount * 10^decimals) < 2^256
WeiAcceptable ==
    /\ in.amount.cls = "finite"
    /\ ~in.amount.neg
    /\ in.amount.d # <<>>
    /\ in.decimals \in 0..MaxDecimals
    /\ ScaledFloor(in.amount, in.decimals) # <<>>
    /\ natCmp(ScaledFloor(in.amount, in.decimals), TwoTo256) < 0

\* C2: SafeAmountToWei returns either an integer in [1, 2^256 - 1] and no
\* error, or an error and no value; it fails exactly when amount <= 0,
\* decimals is outside 0..18, the text does not parse (NaN, Inf), the value
\* is >= 2^256 or the value is zero.
C2_ValueInRangeOrError ==
    WeiReturned =>
        /\ \/ /\ out.err = NoErr
              /\ out.val # NilInt
              /\ Sign(out.val) = 1
              /\ natCmp(out.val.abs, TwoTo256) < 0
           \/ /\ out.err # NoErr
              /\ out.val = NilInt
        /\ (out.err = NoErr) <=> WeiAcceptable

\* C2 witness: a positive amount with valid decimals whose value does not
\* fit in 256 bits was refused
C2_Witness ==
    /\ WeiReturned
    /\ ~FloatLeqZero(in.amount)
    /\ in.amount.cls = "finite"
    /\ in.decimals \in 0..MaxDecimals
    /\ natCmp(ScaledFloor(in.amount, in.decimals), TwoTo256) >= 0
    /\ out.err = "amount too large for uint256"
    /\ out.val = NilInt

(***************************************************************************)
(* roundToSignificantDigits: properties.                                   *)
(***************************************************************************)
RoundReturned == fn = "roundToSignificantDigits" /\ pc = "done"

\* Claim C3: roundToSignificantDigits(value, n) is 0 for 0, value itself when
\* value has at most n decimal digits, and floor(value / 10^(digits - n)) *
\* 10^(digits - n) otherwise, digits being the number of decimal digits of
\* value; the result has as many digits as value and is never greater.
C3_FloorAtDigitCount ==
    RoundReturned =>
        LET value  == in.value
            digits == natDigits(value.abs)
            p      == bigInt(FALSE, natPow10(digits - in.n))
        IN  /\ Sign(value) = 0 => out = NewInt(0)
            /\ (Sign(value) # 0 /\ digits <= in.n) => out = value
            /\ digits > in.n =>
                  /\ out = Mul(Div(value, p), p)
                  /\ natDigits(out.abs) = digits
                  /\ Cmp(out, value) <= 0

\* Claim C4: for every non-negative value and every n >= 1, rounding the
\* rounded value again to n significant digits leaves it as it is.
C4_Idempotent ==
    (RoundReturned /\ Sign(in.value) >= 0 /\ in.n >= 1) =>
        roundToSignificantDigits(out, in.n) = out

\* a positive value that the rounding changed
C4_Witness ==
    /\ RoundReturned
    /\ Sign(in.value) > 0
    /\ in.n >= 1
    /\ out # in.value
    /\ roundToSignificantDigits(out, in.n) = out

(***************************************************************************)
(* CalculateOrderAmounts: properties.  The exact taker value is the        *)
(* fraction TakerNum / TakerDen of the rounded maker amount and the value  *)
(* of the float64 price.                                                   *)
(***************************************************************************)
CalcEnded == fn = "CalculateOrderAmounts" /\ pc # "call"

CalcAccepted == fn = "CalculateOrderAmounts" /\ pc = "done" /\ out.err = NoErr

\* a > 0 with only its first n decimal digits kept, by arithmetic
KeepLeadingDigits(a, n) ==
    IF natDigits(a) <= n THEN a
    ELSE natMul(natDivMod(a, natPow10(natDigits(a) - n)).q,
                natPow10(natDigits(a) - n))

RoundedMaker == KeepLeadingDigits(in.makerAmount.abs, MakerSigDigits)

TakerNum ==
    IF in.side = OrderSideBuy THEN natMul(RoundedMaker, in.price.den)
    ELSE natMul(RoundedMaker, in.price.mant)

TakerDen ==
    IF in.side = OrderSideBuy THEN in.price.mant ELSE in.price.den

\* n / d rounded to the nearest integer, a half rounding up
natRoundHalfUp(n, d) == natDivMod(natAdd(natMulWord(n, 2), d), natMulWord(d, 2)).q

natAbsDiff(a, b) == IF natCmp(a, b) >= 0 THEN natSub(a, b) ELSE natSub(b, a)

\* Claim C5: a price is accepted exactly when 0.001 < price < 0.999; every
\* other price returns the price error and no amounts, on either side.
C5_AcceptedIffInsideInterval ==
    CalcEnded =>
        IF FloatLess(PriceMin, in.price) /\ FloatLess(in.price, PriceMax)
        THEN CalcAccepted
        ELSE /\ pc = "done"
             /\ out.err = "price must be between 0.001 and 0.999"
             /\ out.maker = NilInt
             /\ out.taker = NilInt

\* Claim C6 as stated: for every accepted price and either side the returned
\* maker amount is roundToSignificantDigits(makerAmount, 4).
C6_MakerIsRounded_AsStated ==
    CalcAccepted => out.maker = roundToSignificantDigits(in.makerAmount, MakerSigDigits)

\* the taker amount that the code derives from a maker amount m > 0
TakerFrom(m) == AtLeastOne(TakerAmount(bigInt(FALSE, m), in.price, in.side))

\* Claim C6: for every accepted price and either side, a maker amount >= 1
\* comes back with only its first 4 digits kept and the taker amount is
\* derived from that rounded amount; a maker amount <= 0 comes back as 1
\* with a taker amount of 1.
C6_MakerIsRounded ==
    CalcAccepted =>
        IF Sign(in.makerAmount) > 0
        THEN /\ out.maker = bigInt(FALSE, RoundedMaker)
             /\ out.taker = TakerFrom(RoundedMaker)
        ELSE /\ out.maker = NewInt(1)
             /\ out.taker = NewInt(1)

\* the rounding dropped digits and the taker amount shows it
C6_Witness ==
    /\ CalcAccepted
    /\ Sign(in.makerAmount) > 0
    /\ out.maker # in.makerAmount
    /\ out.maker = bigInt(FALSE, RoundedMaker)
    /\ out.taker # TakerFrom(in.makerAmount.abs)

\* Claim C7: the taker amount is the exact quotient (Buy) or product (Sell)
\* of the rounded maker amount and the price, rounded to the nearest
\* integer, a fraction of one half or more rounding up.
C7_TakerIsNearest ==
    (CalcAccepted /\ Sign(in.makerAmount) > 0
       /\ natRoundHalfUp(TakerNum, TakerDen) # <<>>) =>
        out.taker = bigInt(FALSE, natRoundHalfUp(TakerNum, TakerDen))

\* Claim C8: for a positive maker amount the taker amount is less than 1
\* away from the exact quotient or product, unless it was clamped to 1.
C8_TakerWithinOneUnit ==
    (CalcAccepted /\ Sign(in.makerAmount) > 0
       /\ natCmp(TakerNum, TakerDen) >= 0) =>
        natCmp(natAbsDiff(natMul(out.taker.abs, TakerDen), TakerNum), TakerDen) < 0

\* Claim C9: amounts returned without error are both >= 1; a maker amount
\* that is zero or negative comes back as 1, and so does a taker amount
\* whose exact value is below 1.
C9_AmountsAtLeastOne ==
    CalcAccepted =>
        /\ Cmp(out.maker, NewInt(1)) >= 0
        /\ Cmp(out.taker, NewInt(1)) >= 0
        /\ Sign(in.makerAmount) <= 0 => out.maker = NewInt(1)
        /\ (Sign(in.makerAmount) <= 0 \/ natCmp(TakerNum, TakerDen) < 0) =>
              out.taker = NewInt(1)

\* a Sell of a small maker amount at a low price: the product is below 1
C9_Witness ==
    /\ CalcAccepted
    /\ in.side = OrderSideSell
    /\ Sign(in.makerAmount) > 0
    /\ natCmp(TakerNum, TakerDen) < 0
    /\ out.maker = in.makerAmount
    /\ out.taker = NewInt(1)

(***************************************************************************)
(* OrderTypedData.Hash: properties.                                        *)
(***************************************************************************)
HashReturned == fn = "OrderTypedData.Hash" /\ pc = "done"

\* the word that holds a field's value
FieldWord(o, f) ==
    IF f \in BigIntFields THEN o[f].abs
    ELSE IF f \in AddressFields THEN o[f]
    ELSE natFromInt(o[f])

\* the fields in their declared order
DeclaredOrder ==
    << "Salt", "Maker", "Signer", "Taker", "TokenID", "MakerAmount",
       "TakerAmount", "Expiration", "Nonce", "FeeRateBps", "Side",
       "SignatureType" >>

\* Claim C10: the hashed input is 13 32-byte words, the Order type hash and
\* then the 12 fields in their declared order, a zero field holding a zero
\* word; an order that differs in one field has a different encoded input.
C10_ThirteenSlotsInjective ==
    HashReturned =>
        /\ Len(out.encoded) = 13
        /\ \A k \in 1..13 : natCmp(out.encoded[k], tt256) < 0
        /\ out.encoded[1] = OrderTypeHash
        /\ \A k \in 1..12 :
              LET f == DeclaredOrder[k]
              IN  (f \in BigIntFields =>
                      ~in.order[f].neg /\ natCmp(in.order[f].abs, tt256) < 0)
                  => out.encoded[k + 1] = FieldWord(in.order, f)
        /\ out.hash = Keccak256Hash(out.encoded)
        /\ \A f \in OrderFields : \A v \in FieldValues(f) :
              v # in.order[f] => Pack([in.order EXCEPT ![f] = v]) # out.encoded

(***************************************************************************)
(* EIP712Domain: NewEIP712Domain and Hash.                                  *)
(***************************************************************************)
EIP712DomainName == "OPINION CTF Exchange"

EIP712DomainVersion == "1"

\* Keccak256Hash of "EIP712Domain(string name,string version,uint256
\* chainId,address verifyingContract)": 0x8b73c3c6...2b39400f
EIP712DomainTypeHash ==
    natOf(<<63, 76, 24, 560, 530, 113, 402, 979, 550, 242, 307, 453, 568,
            63, 438, 748, 328, 787, 417, 531, 900, 361, 828, 837, 441, 551>>)

NewEIP712Domain(chainID, verifyingContract) ==
    [Name |-> EIP712DomainName, Version |-> EIP712DomainVersion,
     ChainID |-> chainID, VerifyingContract |-> verifyingContract]

\* the five arguments in the order Pack is given them, one word each
PackDomain(d) ==
    << EIP712DomainTypeHash,
       Keccak256Hash(d.Name),
       Keccak256Hash(d.Version),
       PackUint256(d.ChainID),
       PackAddress(d.VerifyingContract) >>

\* EIP712Domain.Hash. Packing a nil *big.Int dereferences it (packNum
\* copies the value with big.Int.Set): the call panics.
EIP712DomainHash(d) ==
    IF d.ChainID = NilInt
    THEN [status |-> "panic", encoded |-> None, hash |-> None]
    ELSE [status |-> "done", encoded |-> PackDomain(d),
          hash |-> Keccak256Hash(PackDomain(d))]

MaxChainID == 20

\* chain ids: small ones, BNB Chain (56), the values around the uint256
\* range, and no value at all
ChainIDValues ==
    {NewInt(v) : v \in 0..MaxChainID} \cup {NewInt(56), NilInt} \cup BigIntValues

InitDomain ==
    /\ fn = "EIP712Domain.Hash"
    /\ in \in [chainID : ChainIDValues, verifyingContract : AddressValues]
    /\ pc = "call"
    /\ out = None

\* d := NewEIP712Domain(chainID, verifyingContract); d.Hash()
CallEIP712DomainHash ==
    /\ fn = "EIP712Domain.Hash"
    /\ pc = "call"
    /\ out' = [domain |-> NewEIP712Domain(in.chainID, in.verifyingContract),
               result |-> EIP712DomainHash(
                              NewEIP712Domain(in.chainID, in.verifyingContract))]
    /\ pc' = out'.result.status
    /\ UNCHANGED <<fn, in>>

NextDomain == CallEIP712DomainHash

SpecDomain == InitDomain /\ [][NextDomain]_vars

DomainReturned == fn = "EIP712Domain.Hash" /\ pc = "done"

\* Claim C11: EIP712Domain.Hash hashes 5 words in this order: the domain
\* type hash, Keccak256(name), Keccak256(version), chainId as uint256, the
\* verifying contract; a domain built by NewEIP712Domain has the name
\* "OPINION CTF Exchange" and the version "1"; two domains that differ in
\* chainId or in verifyingContract have different encoded inputs.
C11_DomainFiveSlotsInjective ==
    DomainReturned =>
        /\ out.domain.Name = "OPINION CTF Exchange"
        /\ out.domain.Version = "1"
        /\ Len(out.result.encoded) = 5
        /\ out.result.encoded[1] = EIP712DomainTypeHash
        /\ out.result.encoded[2] = Keccak256Hash("OPINION CTF Exchange")
        /\ out.result.encoded[3] = Keccak256Hash("1")
        /\ (~in.chainID.neg /\ natCmp(in.chainID.abs, tt256) < 0)
              => out.result.encoded[4] = in.chainID.abs
        /\ out.result.encoded[5] = in.verifyingContract
        /\ out.result.hash = Keccak256Hash(out.result.encoded)
        /\ \A c \in ChainIDValues \ {NilInt, in.chainID} :
              PackDomain(NewEIP712Domain(c, in.verifyingContract))
                  # out.result.encoded
        /\ \A a \in AddressValues \ {in.verifyingContract} :
              PackDomain(NewEIP712Domain(in.chainID, a)) # out.result.encoded

(***************************************************************************)
(* Orders as strings (chain.Order, chain.OrderData) and their conversion.  *)
(* A Go string is the sequence of its characters; an address string is     *)
(* kept whole, as one element, since common.Address.Hex() always has 42    *)
(* characters.                                                             *)
(***************************************************************************)
SignatureTypeEOA == 0

SignatureTypePolyGnosisSafe == 1

SignatureTypePolyProxy == 2

\* common.HexToAddress: the bytes the hex text decodes to, no error; text
\* that is not hex decodes to nothing, which is the zero address
HexToAddress(s) ==
    IF s = <<"0x01">> THEN <<1>>
    ELSE IF s = <<"0x02">> THEN <<2>>
    ELSE <<>>

\* common.Address.Hex()
Hex(a) ==
    IF a = <<1>> THEN <<"0x01">>
    ELSE IF a = <<2>> THEN <<"0x02">>
    ELSE <<"0x00">>

normalizeAddress(addr) == Hex(HexToAddress(addr))

\* the value SetString leaves, or the default the code puts in its place
ParsedOrZero(s) == IF SetString(s).ok THEN SetString(s).val ELSE NewInt(0)

SideCode(s) == IF s = <<"1">> THEN 1 ELSE 0

SignatureTypeCode(s) ==
    IF s = <<"1">> THEN 1 ELSE IF s = <<"2">> THEN 2 ELSE 0

\* OrderToTypedData: [typed, err]
OrderToTypedData(order) ==
    IF ~SetString(order.Salt).ok
    THEN [typed |-> None, err |-> "invalid order salt"]
    ELSE IF ~SetString(order.TokenID).ok
    THEN [typed |-> None, err |-> "invalid token ID"]
    ELSE IF ~SetString(order.MakerAmount).ok
    THEN [typed |-> None, err |-> "invalid maker amount"]
    ELSE IF ~SetString(order.TakerAmount).ok
    THEN [typed |-> None, err |-> "invalid taker amount"]
    ELSE [typed |->
              [Salt |-> SetString(order.Salt).val,
               Maker |-> HexToAddress(order.Maker),
               Signer |-> HexToAddress(order.Signer),
               Taker |-> HexToAddress(order.Taker),
               TokenID |-> SetString(order.TokenID).val,
               MakerAmount |-> SetString(order.MakerAmount).val,
               TakerAmount |-> SetString(order.TakerAmount).val,
               Expiration |-> ParsedOrZero(order.Expiration),
               Nonce |-> ParsedOrZero(order.Nonce),
               FeeRateBps |-> ParsedOrZero(order.FeeRateBps),
               Side |-> SideCode(order.Side),
               SignatureType |-> SignatureTypeCode(order.SignatureType)],
          err |-> NoErr]

\* a byte slice put together from single bytes and 32-byte words
RawData(b) == [bytes |-> b]

\* CreateOrderSignHash: Keccak256 of 0x19, 0x01, the domain separator and
\* the struct hash; [data, hash]
CreateOrderSignHash(domain, typed) ==
    [data |-> RawData(<<25, 1, EIP712DomainHash(domain).hash,
                        OrderTypedDataHash(typed).hash>>),
     hash |-> Keccak256Hash(RawData(<<25, 1, EIP712DomainHash(domain).hash,
                                      OrderTypedDataHash(typed).hash>>))]

(***************************************************************************)
(* OrderBuilder: signing.  The sources hold two definitions of             *)
(* OrderBuilder.SignOrder, one in eip712.go and one in order_builder.go;   *)
(* a build has one of them.                                                *)
(***************************************************************************)
\* *ecdsa.PrivateKey: no key at all, a PrivateKey whose fields were never
\* set, or a key with the secret D
NilKey == [kind |-> "nil", D |-> 0]

ZeroValueKey == [kind |-> "zeroValue", D |-> 0]

PrivateKey(D) == [kind |-> "key", D |-> D]

RecoveryID_FreshNonce(hash, key) == (key.D + Len(out.log)) % 2

\* the recovery id of a signature is fixed by the digest and the key
\* (RFC 6979 nonces); which of 0 and 1 it is, is not the code's doing
RecoveryID(hash, key) == key.D % 2

\* crypto.Sign(hash, prv): reading prv.D of a nil key and calling
\* prv.Params() on a key without a curve both dereference nil; a secret
\* of 0 is refused by the curve library; [status, sig, err]
cryptoSign(hash, prv) ==
    IF prv.kind # "key"
    THEN [status |-> "panic", sig |-> None, err |-> "nil pointer dereference"]
    ELSE IF prv.D = 0
    THEN [status |-> "done", sig |-> None, err |-> "invalid private key"]
    ELSE [status |-> "done",
          sig |-> [r |-> [bytes |-> 32, of |-> <<"r", hash, prv.D>>],
                   s |-> [bytes |-> 32, of |-> <<"s", hash, prv.D>>],
                   v |-> RecoveryID(hash, prv)],
          err |-> NoErr]

AddToByte_NoOffset(b, n) == b % 256

\* b += n on a byte
AddToByte(b, n) == (b + n) % 256

\* fmt.Sprintf("0x%x", signature) after signature[64] += 27: the prefix
\* and the 65 bytes, each of them printed as two hex characters
FormatSignature(sig) ==
    [prefix |-> "0x", r |-> sig.r, s |-> sig.s, v |-> AddToByte(sig.v, 27),
     hexChars |-> 2 * (sig.r.bytes + sig.s.bytes + 1)]

\* what SignOrder returns for the outcome signed of crypto.Sign; hashed
\* and hash record what was signed
SignOrderResult(signed, hashed, hash) ==
    IF signed.status = "panic"
    THEN [status |-> "panic", signature |-> <<>>, err |-> signed.err,
          hashed |-> hashed, hash |-> hash]
    ELSE IF signed.err # NoErr
    THEN [status |-> "done", signature |-> <<>>,
          err |-> "failed to sign order: " \o signed.err,
          hashed |-> hashed, hash |-> hash]
    ELSE [status |-> "done", signature |-> FormatSignature(signed.sig),
          err |-> NoErr, hashed |-> hashed, hash |-> hash]

SignTypedData(ob, signHash) ==
    SignOrderResult(cryptoSign(signHash.hash, ob.signer), signHash.data, signHash.hash)

SignConverted(ob, converted) ==
    IF converted.err # NoErr
    THEN [status |-> "done", signature |-> <<>>,
          err |-> "failed to convert order to typed data: " \o converted.err,
          hashed |-> None, hash |-> None]
    ELSE SignTypedData(ob, CreateOrderSignHash(
                               NewEIP712Domain(ob.chainID, ob.exchangeAddr),
                               converted.typed))

\* OrderBuilder.SignOrder of eip712.go
SignOrder(ob, order) == SignConverted(ob, OrderToTypedData(order))

\* fmt.Sprintf("%s%s%s%s%s%s%s%s%s%s%s%s", ...) of the twelve fields
OrderMessage(order) ==
    order.Salt \o order.Maker \o order.Signer \o order.Taker \o order.TokenID
        \o order.MakerAmount \o order.TakerAmount \o order.Expiration
        \o order.Nonce \o order.FeeRateBps \o order.Side \o order.SignatureType

\* []byte(message): the bytes of a text
StringBytes(message) == [utf8 |-> message]

SignMessage(ob, message) ==
    SignOrderResult(cryptoSign(Keccak256Hash(message), ob.signer), message,
                    Keccak256Hash(message))

\* OrderBuilder.SignOrder of order_builder.go
SignOrder_order_builder(ob, order) ==
    SignMessage(ob, StringBytes(OrderMessage(order)))

\* the SignOrder of the build
SignOrderOf(build, ob, order) ==
    IF build = "eip712.go" THEN SignOrder(ob, order)
    ELSE SignOrder_order_builder(ob, order)

(***************************************************************************)
(* OrderBuilder: building.                                                  *)
(***************************************************************************)
\* a * b in int64 arithmetic, for a, b >= 0: the product's low 64 bits,
\* read as a signed number
Int64Mul(a, b) ==
    IF natCmp(natDivMod(natMul(a, b), natPow2(64)).r, natPow2(63)) < 0
    THEN bigInt(FALSE, natDivMod(natMul(a, b), natPow2(64)).r)
    ELSE bigInt(TRUE, natSub(natPow2(64),
                             natDivMod(natMul(a, b), natPow2(64)).r))

\* generateSalt with now = time.Now().Unix() and random = rand.Int63()
generateSalt(now, random) == String(Int64Mul(now, random))

validateInputs(data) ==
    IF data.Maker = <<>> THEN "maker is required"
    ELSE IF data.TokenID = <<>> THEN "tokenId is required"
    ELSE IF data.MakerAmount = <<>> THEN "makerAmount is required"
    ELSE IF data.TakerAmount = <<>> THEN "takerAmount is required"
    ELSE IF data.Side # OrderSideBuy /\ data.Side # OrderSideSell
    THEN "invalid side"
    ELSE NoErr

\* what BuildOrder leaves in the caller's OrderData
DataWithDefaults(data) ==
    [data EXCEPT !.Signer = IF data.Signer = <<>> THEN data.Maker ELSE data.Signer,
                 !.Expiration = IF data.Expiration = <<>> THEN <<"0">>
                                ELSE data.Expiration]

sideStr(data) == IF data.Side = OrderSideSell THEN <<"1">> ELSE <<"0">>

sigTypeStr_NoProxy(data) ==
    IF data.SignatureType = SignatureTypePolyGnosisSafe THEN <<"1">> ELSE <<"0">>

sigTypeStr(data) ==
    IF data.SignatureType = SignatureTypePolyGnosisSafe THEN <<"1">>
    ELSE IF data.SignatureType = SignatureTypePolyProxy THEN <<"2">>
    ELSE <<"0">>

\* the Order made of the OrderData after its defaults were set
OrderOf(data, salt) ==
    [Salt |-> salt,
     Maker |-> normalizeAddress(data.Maker),
     Signer |-> normalizeAddress(data.Signer),
     Taker |-> normalizeAddress(data.Taker),
     TokenID |-> data.TokenID,
     MakerAmount |-> data.MakerAmount,
     TakerAmount |-> data.TakerAmount,
     Expiration |-> data.Expiration,
     Nonce |-> data.Nonce,
     FeeRateBps |-> data.FeeRateBps,
     Side |-> sideStr(data),
     SignatureType |-> sigTypeStr(data)]

\* BuildOrder: [order, err, data], data being the caller's OrderData as
\* the call leaves it
BuildOrder(data, now, random) ==
    IF validateInputs(data) # NoErr
    THEN [order |-> None, err |-> validateInputs(data), data |-> data]
    ELSE [order |-> OrderOf(DataWithDefaults(data), generateSalt(now, random)),
          err |-> NoErr,
          data |-> DataWithDefaults(data)]

\* what BuildSignedOrder returns for the order built and its signing
SignedOrderOf(built, signed) ==
    IF signed.status = "panic" \/ signed.err # NoErr
    THEN [status |-> signed.status, signedOrder |-> None, err |-> signed.err,
          data |-> built.data, order |-> built.order, signing |-> signed]
    ELSE [status |-> "done",
          signedOrder |-> [Order |-> built.order, Signature |-> signed.signature],
          err |-> NoErr, data |-> built.data, order |-> built.order,
          signing |-> signed]

BuildThenSign(build, ob, built) ==
    IF built.err # NoErr
    THEN [status |-> "done", signedOrder |-> None, err |-> built.err,
          data |-> built.data, order |-> None, signing |-> None]
    ELSE SignedOrderOf(built, SignOrderOf(build, ob, built.order))

\* BuildSignedOrder: [status, signedOrder, err, data, order, signing],
\* order and signing being what BuildOrder and SignOrder returned to it
BuildSignedOrder(build, ob, data, now, random) ==
    BuildThenSign(build, ob, BuildOrder(data, now, random))

(***************************************************************************)
(* A builder in use.  in holds the build, the OrderBuilder ob, and the     *)
(* caller's Order and OrderData (both handed over by pointer); out keeps   *)
(* what the calls of SignOrder and of BuildSignedOrder returned so far,    *)
(* and in log which method each call was; pc is "call" until a call        *)
(* panics.                                                                  *)
(***************************************************************************)
MaxCalls == 3

Builds == {"eip712.go", "order_builder.go"}

\* decimal texts and texts that are no decimal integer
NumStrings ==
    {<<>>, <<"x">>, <<"-", "1">>, <<"0">>, <<"2">>,
     String(bigInt(FALSE, natSub(tt256, <<1>>))), String(bigInt(FALSE, tt256))}

AddressStrings == {<<"0x01">>, <<"0x02">>, <<"zz">>, <<>>}

CodeStrings == {<<"0">>, <<"1">>, <<"2">>, <<"3">>, <<"x">>, <<>>}

NumOrderFields ==
    {"Salt", "TokenID", "MakerAmount", "TakerAmount", "Expiration", "Nonce",
     "FeeRateBps"}

NumDataFields ==
    {"TokenID", "MakerAmount", "TakerAmount", "Expiration", "Nonce", "FeeRateBps"}

StringFieldValues(f) ==
    IF f \in NumOrderFields THEN NumStrings
    ELSE IF f \in AddressFields THEN AddressStrings
    ELSE CodeStrings

SomeStringOrder ==
    [Salt |-> <<"1">>, Maker |-> <<"0x01">>, Signer |-> <<"0x01">>,
     Taker |-> <<"0x00">>, TokenID |-> <<"1">>, MakerAmount |-> <<"2">>,
     TakerAmount |-> <<"1">>, Expiration |-> <<"0">>, Nonce |-> <<"0">>,
     FeeRateBps |-> <<"0">>, Side |-> <<"0">>, SignatureType |-> <<"0">>]

\* the orders that differ from SomeStringOrder in at most one field
StringOrders ==
    {[SomeStringOrder EXCEPT ![fv[1]] = fv[2]] :
        fv \in UNION {{<<f, v>> : v \in StringFieldValues(f)} : f \in OrderFields}}

DataFieldValues(f) ==
    IF f \in NumDataFields THEN NumStrings
    ELSE IF f \in AddressFields THEN AddressStrings
    ELSE IF f = "Side" THEN {-1, OrderSideBuy, OrderSideSell, 2}
    ELSE {-1, SignatureTypeEOA, SignatureTypePolyGnosisSafe,
          SignatureTypePolyProxy, 3}

SomeOrderData ==
    [Maker |-> <<"0x01">>, Taker |-> <<>>, TokenID |-> <<"1">>,
     MakerAmount |-> <<"2">>, TakerAmount |-> <<"1">>, Side |-> OrderSideBuy,
     FeeRateBps |-> <<"0">>, Nonce |-> <<"0">>, Signer |-> <<>>,
     Expiration |-> <<>>, SignatureType |-> SignatureTypeEOA]

\* the OrderData that differ from SomeOrderData in at most one field
OrderDatas ==
    {[SomeOrderData EXCEPT ![fv[1]] = fv[2]] :
        fv \in UNION {{<<f, v>> : v \in DataFieldValues(f)} :
                          f \in NumDataFields \cup AddressFields
                                \cup {"Side", "SignatureType"}}}

Keys == {NilKey, ZeroValueKey, PrivateKey(0), PrivateKey(1), PrivateKey(2)}

\* NewOrderBuilder
NewOrderBuilder(exchangeAddr, chainID, signer) ==
    [exchangeAddr |-> HexToAddress(exchangeAddr), chainID |-> NewInt(chainID),
     signer |-> signer]

SomeBuilder == NewOrderBuilder(<<"0x01">>, 56, PrivateKey(1))

\* the builders that differ from SomeBuilder in at most one argument
Builders ==
    {NewOrderBuilder(<<"0x01">>, 56, k) : k \in Keys}
    \cup {NewOrderBuilder(<<"0x01">>, c, PrivateKey(1)) : c \in {-1, 0, 1}}
    \cup {NewOrderBuilder(a, 56, PrivateKey(1)) : a \in {<<"0x02">>, <<"zz">>}}

\* time.Now().Unix()
Nows == {natFromInt(1700000000)}

\* rand.Int63(): 3 and 2^63 - 1
Randoms == {<<3>>, natSub(natPow2(63), <<1>>)}

BuilderInputs ==
    {[build |-> b, ob |-> SomeBuilder, order |-> o, data |-> SomeOrderData] :
        b \in Builds, o \in StringOrders}
    \cup {[build |-> b, ob |-> SomeBuilder, order |-> SomeStringOrder, data |-> d] :
            b \in Builds, d \in OrderDatas}
    \cup {[build |-> b, ob |-> ob, order |-> SomeStringOrder,
           data |-> SomeOrderData] : b \in Builds, ob \in Builders}

InitSign ==
    /\ fn = "OrderBuilder"
    /\ in \in BuilderInputs
    /\ pc = "call"
    /\ out = [signed |-> <<>>, built |-> <<>>, log |-> <<>>]

Calls == Len(out.log)

CallSignOrder ==
    /\ fn = "OrderBuilder"
    /\ pc = "call"
    /\ Calls < MaxCalls
    /\ out' = [out EXCEPT !.signed =
                   Append(@, SignOrderOf(in.build, in.ob, in.order)),
                           !.log = Append(@, "SignOrder")]
    /\ pc' = IF out'.signed[Len(out'.signed)].status = "panic" THEN "panic"
             ELSE "call"
    /\ UNCHANGED <<fn, in>>

CallBuildSignedOrder ==
    /\ fn = "OrderBuilder"
    /\ pc = "call"
    /\ Calls < MaxCalls
    /\ \E now \in Nows, random \in Randoms :
          out' = [out EXCEPT !.built =
                      Append(@, BuildSignedOrder(in.build, in.ob, in.data,
                                                 now, random)),
                              !.log = Append(@, "BuildSignedOrder")]
    /\ in' = [in EXCEPT !.data = out'.built[Len(out'.built)].data]
    /\ pc' = IF out'.built[Len(out'.built)].status = "panic" THEN "panic"
             ELSE "call"
    /\ UNCHANGED fn

NextSign == CallSignOrder \/ CallBuildSignedOrder

SpecSign == InitSign /\ [][NextSign]_vars

(***************************************************************************)
(* Signing: properties.                                                    *)
(***************************************************************************)
\* the SignOrder calls that returned a signature: the direct ones, and the
\* ones BuildSignedOrder made, each with the order it was given
Signings ==
    {[order |-> in.order, result |-> out.signed[i]] : i \in 1..Len(out.signed)}
    \cup {[order |-> out.built[i].signedOrder.Order,
           result |-> out.built[i].signing] :
            i \in {j \in 1..Len(out.built) : out.built[j].signedOrder # None}}

Signed == {s \in Signings : s.result.status = "done" /\ s.result.err = NoErr}

\* Claim C12: whenever SignOrder returns a signature, the hash it signed
\* is Keccak256 of 0x19, 0x01, the domain separator of the builder's
\* chain id and exchange address, and the struct hash of the order, in
\* that order.
C12_SignsTypedDataHash ==
    \A s \in Signed :
        s.result.hash =
            Keccak256Hash(RawData(
                <<25, 1,
                  EIP712DomainHash(NewEIP712Domain(in.ob.chainID,
                                                   in.ob.exchangeAddr)).hash,
                  OrderTypedDataHash(OrderToTypedData(s.order).typed).hash>>))

C14_SignatureShape ==
    \A s \in Signed :
        /\ s.result.signature.prefix = "0x"
        /\ s.result.signature.hexChars = 130
        /\ s.result.signature.r.bytes = 32
        /\ s.result.signature.s.bytes = 32
        /\ s.result.signature.v = RecoveryID(s.result.hash, in.ob.signer) + 27
        /\ s.result.signature.v \in {27, 28}

\* a signature whose recovery id is 1
C14_Witness ==
    \E s \in Signed :
        RecoveryID(s.result.hash, in.ob.signer) = 1 /\ s.result.signature.v = 28

\* an order with a field that is no decimal integer text, or with a side
\* or signature type text that is none of the codes
Malformed(order) ==
    \/ \E f \in NumOrderFields : ~SetString(order[f]).ok
    \/ order.Side \notin {<<"0">>, <<"1">>}
    \/ order.SignatureType \notin {<<"0">>, <<"1">>, <<"2">>}

\* Claim C15: SignOrder returns an error for every order with a malformed
\* field (salt, tokenId, makerAmount, takerAmount, expiration, nonce,
\* feeRateBps not a decimal integer; side or signatureType not a code);
\* no such order is converted with a default value and signed.
C15_MalformedRejected ==
    \A s \in Signings : Malformed(s.order) => s.result.err # NoErr

\* Claim C16: no call of SignOrder or BuildSignedOrder panics, whatever
\* the key, the builder and the order are; a failure comes back as an
\* error, and a call that returns an error returns no signature and no
\* SignedOrder.
C16_FailuresAreErrors ==
    /\ pc # "panic"
    /\ \A i \in 1..Len(out.signed) :
          /\ out.signed[i].status = "done"
          /\ out.signed[i].err # NoErr => out.signed[i].signature = <<>>
    /\ \A i \in 1..Len(out.built) :
          /\ out.built[i].status = "done"
          /\ out.built[i].err # NoErr => out.built[i].signedOrder = None

\* the orders BuildOrder returned
BuiltOrders ==
    {out.built[i].order : i \in {j \in 1..Len(out.built) : out.built[j].order # None}}

\* the text of a code
CodeString(n) == IF n = 0 THEN <<"0">> ELSE IF n = 1 THEN <<"1">> ELSE <<"2">>

\* Claim C17: for every OrderData that BuildOrder accepts, the side is Buy
\* or Sell and the order's Side is "0" for Buy and "1" for Sell; the
\* order's SignatureType is "0", "1" or "2", and the text of the code for
\* EOA, GnosisSafe and Proxy; and OrderToTypedData, where it converts the
\* order, gives the codes back: Side in {0, 1} and SignatureType in
\* {0, 1, 2}, equal to the codes of the OrderData.
C17_CodesRoundTrip ==
    \A o \in BuiltOrders :
        /\ in.data.Side \in {OrderSideBuy, OrderSideSell}
        /\ o.Side = CodeString(in.data.Side)
        /\ o.SignatureType \in {<<"0">>, <<"1">>, <<"2">>}
        /\ in.data.SignatureType \in
               {SignatureTypeEOA, SignatureTypePolyGnosisSafe, SignatureTypePolyProxy}
               => o.SignatureType = CodeString(in.data.SignatureType)
        /\ OrderToTypedData(o).err = NoErr =>
              /\ OrderToTypedData(o).typed.Side = in.data.Side
              /\ OrderToTypedData(o).typed.SignatureType \in {0, 1, 2}
              /\ CodeString(OrderToTypedData(o).typed.SignatureType) = o.SignatureType

\* a Proxy order built and converted
C17_Witness ==
    /\ in.data.SignatureType = SignatureTypePolyProxy
    /\ \E o \in BuiltOrders :
          /\ o.SignatureType = <<"2">>
          /\ OrderToTypedData(o).err = NoErr
          /\ OrderToTypedData(o).typed.SignatureType = 2

\* a value a uint256 can hold
InUint256(x) == Cmp(x, NewInt(0)) >= 0 /\ Cmp(x, bigInt(FALSE, tt256)) < 0

\* Claim C18: in every order that SignOrder signs, each of salt, tokenId,
\* makerAmount, takerAmount, expiration, nonce and feeRateBps that is a
\* decimal integer is >= 0 and < 2^256 (an order with a negative or too
\* large amount is rejected, not hashed), and the salt BuildOrder
\* generates is never negative.
C18_Uint256FieldsInRange ==
    /\ \A s \in Signed : \A f \in NumOrderFields :
          SetString(s.order[f]).ok => InUint256(SetString(s.order[f]).val)
    /\ \A o \in BuiltOrders :
          SetString(o.Salt).ok /\ Cmp(SetString(o.Salt).val, NewInt(0)) >= 0

\* Claim C19: SignOrder and BuildSignedOrder only read what they are
\* given: no call changes the caller's Order or OrderData, nor the
\* builder's chain id, exchange address or key.
C19_InputsUnchanged ==
    [][/\ in'.order = in.order
       /\ in'.data = in.data
       /\ in'.ob = in.ob]_vars

(***************************************************************************)
(* Client.GetMarket and the market cache.  Time is counted in minutes.     *)
(* in holds the client's marketCacheTTL; out holds the clock now, the      *)
(* marketCache (a function from the ids that have an entry to the entry)   *)
(* the numbers of GetMarket calls begun and of API calls made, and the     *)
(* goroutine that began the last call; pc holds, for each calling          *)
(* goroutine, where it is in GetMarket (at: "idle" outside a call, "api"   *)
(* while the request is out, "store" once it has come back), the arguments *)
(* of its last call, the market fetched and what the call returned.  The   *)
(* sections under cacheMutex are one step each.                             *)
(***************************************************************************)
DefaultMarketCacheTTL == 5

MaxTime == 2
MaxGetMarket == 3

Goroutines == {1, 2}

\* Config.MarketCacheTTL as the caller sets it
ConfigTTLs == {-1, 0, 1, 2}

\* the ids asked for; 0 is not the id of a market
MarketIDs == {0, 1, 2}

\* what the API can answer for a market: its data at that moment
Markets(id) == {[id |-> id, version |-> v] : v \in {1, 2}}

\* NewClient: the TTL the client keeps
NewClientMarketCacheTTL(configTTL) ==
    IF configTTL = 0 THEN DefaultMarketCacheTTL ELSE configTTL

cacheEntry(data, timestamp) == [data |-> data, timestamp |-> timestamp]

\* c.marketCache[marketID] = entry
CachePut(cache, marketID, entry) ==
    [i \in DOMAIN cache \cup {marketID} |->
        IF i = marketID THEN entry ELSE cache[i]]

CacheUsable_AgeUpToTTL(cache, ttl, marketID, useCache, now) ==
    /\ useCache
    /\ ttl > 0
    /\ marketID \in DOMAIN cache
    /\ now - cache[marketID].timestamp <= ttl

\* the test GetMarket makes under the read lock
CacheUsable(cache, ttl, marketID, useCache, now) ==
    /\ useCache
    /\ ttl > 0
    /\ marketID \in DOMAIN cache
    /\ now - cache[marketID].timestamp < ttl

Idle ==
    [at |-> "idle", marketID |-> 0, useCache |-> FALSE, market |-> None,
     result |-> None]

InitCache ==
    /\ fn = "Client.GetMarket"
    /\ in \in {[marketCacheTTL |-> NewClientMarketCacheTTL(t)] : t \in ConfigTTLs}
    /\ pc = [g \in Goroutines |-> Idle]
    /\ out = [now |-> 0, marketCache |-> <<>>, calls |-> 0, caller |-> 0,
              apiCalls |-> 0]

\* GetMarket up to the API call: the argument check and the cache lookup
GetMarketLookup(g, marketID, useCache) ==
    /\ fn = "Client.GetMarket"
    /\ pc[g].at = "idle"
    /\ out.calls < MaxGetMarket
    /\ pc' = [pc EXCEPT ![g] =
          IF marketID <= 0
          THEN [at |-> "idle", marketID |-> marketID,
                useCache |-> useCache, market |-> None,
                result |-> [err |-> "InvalidParamError", market |-> None]]
          ELSE IF CacheUsable(out.marketCache, in.marketCacheTTL, marketID,
                              useCache, out.now)
          THEN [at |-> "idle", marketID |-> marketID,
                useCache |-> useCache, market |-> None,
                result |-> [err |-> NoErr,
                            market |-> out.marketCache[marketID].data]]
          ELSE [at |-> "api", marketID |-> marketID,
                useCache |-> useCache, market |-> None, result |-> None]]
    /\ out' = [out EXCEPT !.calls = @ + 1, !.caller = g]
    /\ UNCHANGED <<fn, in>>

\* c.apiClient.GetMarket fails
GetMarketAPIError(g) ==
    /\ fn = "Client.GetMarket"
    /\ pc[g].at = "api"
    /\ pc' = [pc EXCEPT ![g].at = "idle",
                        ![g].result = [err |-> "APIError", market |-> None]]
    /\ out' = [out EXCEPT !.apiCalls = @ + 1]
    /\ UNCHANGED <<fn, in>>

\* c.apiClient.GetMarket answers
GetMarketAPIResult(g, market) ==
    /\ fn = "Client.GetMarket"
    /\ pc[g].at = "api"
    /\ pc' = [pc EXCEPT ![g].at = "store", ![g].market = market]
    /\ out' = [out EXCEPT !.apiCalls = @ + 1]
    /\ UNCHANGED <<fn, in>>

\* GetMarket after the API call: the store under the write lock, and the
\* return
GetMarketStore(g) ==
    /\ fn = "Client.GetMarket"
    /\ pc[g].at = "store"
    /\ out' = [out EXCEPT !.marketCache =
                   IF in.marketCacheTTL > 0
                   THEN CachePut(@, pc[g].marketID,
                                 cacheEntry(pc[g].market, out.now))
                   ELSE @]
    /\ pc' = [pc EXCEPT ![g].at = "idle",
                        ![g].result = [err |-> NoErr, market |-> pc[g].market]]
    /\ UNCHANGED <<fn, in>>

\* a minute passes
Tick ==
    /\ fn = "Client.GetMarket"
    /\ out.now < MaxTime
    /\ out' = [out EXCEPT !.now = @ + 1]
    /\ UNCHANGED <<fn, in, pc>>

NextCache ==
    \/ \E g \in Goroutines, marketID \in MarketIDs, useCache \in BOOLEAN :
          GetMarketLookup(g, marketID, useCache)
    \/ \E g \in Goroutines : GetMarketAPIError(g)
    \/ \E g \in Goroutines :
          \E market \in Markets(pc[g].marketID) : GetMarketAPIResult(g, market)
    \/ \E g \in Goroutines : GetMarketStore(g)
    \/ Tick

SpecCache == InitCache /\ [][NextCache]_vars

(***************************************************************************)
(* The market cache: properties.                                           *)
(***************************************************************************)
\* goroutine g begins a call of GetMarket in this step
Begins(g) == out'.calls = out.calls + 1 /\ out'.caller = g

\* an entry for the market was stored less than MarketCacheTTL ago
StoredWithinTTL(marketID) ==
    /\ marketID \in DOMAIN out.marketCache
    /\ out.now - out.marketCache[marketID].timestamp < in.marketCacheTTL

\* the call g begins returns the stored market and calls no API
ReturnsStored(g) ==
    /\ pc'[g].at = "idle"
    /\ pc'[g].marketID \in DOMAIN out.marketCache
    /\ pc'[g].result =
           [err |-> NoErr, market |-> out.marketCache[pc'[g].marketID].data]
    /\ out'.apiCalls = out.apiCalls
    /\ out'.marketCache = out.marketCache

\* the API call of g fails in this step, and GetMarket returns
APIFails(g) == pc[g].at = "api" /\ pc'[g].at = "idle"

\* g stores and returns in this step, the API call having succeeded
APISucceeded(g) == pc[g].at = "store" /\ pc'[g].at = "idle"

ReturnsErrorCacheUnchanged(g) ==
    /\ pc'[g].result.err # NoErr
    /\ pc'[g].result.market = None
    /\ out'.marketCache = out.marketCache

StoresFetched(g) ==
    /\ pc'[g].result = [err |-> NoErr, market |-> pc[g].market]
    /\ out'.marketCache =
           [i \in DOMAIN out.marketCache \cup {pc[g].marketID} |->
               IF i = pc[g].marketID
               THEN [data |-> pc[g].market, timestamp |-> out.now]
               ELSE out.marketCache[i]]

\* The statement of claim C20 as it stands: with useCache the stored
\* market is returned, without an API call, exactly when an entry for the
\* id was stored less than MarketCacheTTL ago; every other call goes to
\* the API, a successful answer is stored with the current time, and an
\* API error is returned with the cache left as it was.
C20_CacheAsStated ==
    [][\A g \in Goroutines :
          /\ Begins(g) =>
                IF pc'[g].useCache /\ StoredWithinTTL(pc'[g].marketID)
                THEN ReturnsStored(g)
                ELSE pc'[g].at = "api"
          /\ APISucceeded(g) => StoresFetched(g)
          /\ APIFails(g) => ReturnsErrorCacheUnchanged(g)]_vars

\* Claim C20: a call with an id <= 0 returns an error and calls no API.
\* For an id > 0: with useCache the stored market is returned, without an
\* API call, exactly when an entry for the id was stored less than
\* MarketCacheTTL ago; every other call goes to the API; a successful
\* answer is returned, and stored with the current time when
\* MarketCacheTTL is positive (otherwise the cache stays empty); an API
\* error is returned with the cache left as it was.
C20_Cache ==
    [][\A g \in Goroutines :
          /\ Begins(g) =>
                IF pc'[g].marketID <= 0
                THEN /\ pc'[g].at = "idle"
                     /\ ReturnsErrorCacheUnchanged(g)
                     /\ out'.apiCalls = out.apiCalls
                ELSE IF pc'[g].useCache /\ StoredWithinTTL(pc'[g].marketID)
                THEN ReturnsStored(g)
                ELSE pc'[g].at = "api"
          /\ APISucceeded(g) =>
                IF in.marketCacheTTL > 0 THEN StoresFetched(g)
                ELSE /\ pc'[g].result = [err |-> NoErr, market |-> pc[g].market]
                     /\ out'.marketCache = out.marketCache
                     /\ out.marketCache = <<>>
          /\ APIFails(g) => ReturnsErrorCacheUnchanged(g)]_vars

\* a call answered from the cache, from an entry that is a minute old or
\* more, next to a call that had found the entry too old
C20_Witness ==
    \E g \in Goroutines :
        /\ pc[g].at = "idle"
        /\ out.caller = g
        /\ pc[g].useCache
        /\ pc[g].market = None
        /\ pc[g].result # None
        /\ pc[g].result.err = NoErr
        /\ pc[g].marketID \in DOMAIN out.marketCache
        /\ out.now > out.marketCache[pc[g].marketID].timestamp
        /\ out.apiCalls >= 2

(***************************************************************************)
(* ContractCaller.EnableTrading.  Time is counted in hours from 1 on; 0    *)
(* stands for the zero time.Time.  in holds the caller's                   *)
(* enableTradingCheckInterval, the supportedQuoteTokens map and what the   *)
(* chain answers to the allowance and approval queries; out holds the      *)
(* clock, enableTradingLastTime, the number of calls made, the time of the *)
(* last call that was not skipped (checked, kept for the properties) and   *)
(* the record of the last call: whether it was skipped, the RPC queries it *)
(* made, the batch it built, the transaction and the error it returned.    *)
(***************************************************************************)
ZeroTime == 0

DefaultTokenDecimals == 18

MaxHours == 2
MaxEnableTrading == 3

\* big.NewInt(1000000000) times 10^decimals
minThreshold(decimals) ==
    bigInt(FALSE, natMul(natPow10(decimals), natPow10(9)))

\* 2^256 - 1, the unlimited approval amount
UnlimitedApproval == bigInt(FALSE, natSub(tt256, <<1>>))

\* GetTokenDecimals: the cache is only ever filled with the default
GetTokenDecimals(token) == DefaultTokenDecimals

MultiSendTx(to, method, spender, amount) ==
    [Operation |-> 0, To |-> to, Value |-> NewInt(0),
     Data |-> [method |-> method, spender |-> spender, amount |-> amount]]

ERC20Approvals_NoReset(allowance, token, spender) ==
    IF Cmp(allowance, minThreshold(GetTokenDecimals(token))) < 0
    THEN <<MultiSendTx(token, "approve", spender, UnlimitedApproval)>>
    ELSE <<>>

\* the transactions queued for one token and one spender
ERC20Approvals(allowance, token, spender) ==
    IF Cmp(allowance, minThreshold(GetTokenDecimals(token))) < 0
    THEN (IF Sign(allowance) > 0
          THEN <<MultiSendTx(token, "approve", spender, NewInt(0))>>
          ELSE <<>>)
         \o <<MultiSendTx(token, "approve", spender, UnlimitedApproval)>>
    ELSE <<>>

SetApprovalForAllTxs(isApprovedForAll, conditionalTokens, exchange) ==
    IF isApprovedForAll THEN <<>>
    ELSE <<MultiSendTx(conditionalTokens, "setApprovalForAll", exchange,
                       NewInt(1))>>

\* one round of the loop over supportedQuoteTokens
TokenTxs(cc, chain, token) ==
    ERC20Approvals(chain.allowance[token][cc.tokens[token]], token,
                   cc.tokens[token])
    \o ERC20Approvals(chain.allowance[token][cc.conditionalTokensAddr], token,
                      cc.conditionalTokensAddr)
    \o SetApprovalForAllTxs(chain.isApprovedForAll[token],
                            cc.conditionalTokensAddr, cc.tokens[token])

\* the batch after the loop, the map visited in the given order
RECURSIVE MultiSendTxs(_, _, _)
MultiSendTxs(cc, chain, order) ==
    IF order = <<>> THEN <<>>
    ELSE TokenTxs(cc, chain, Head(order)) \o MultiSendTxs(cc, chain, Tail(order))

QueryErrors ==
    <<"failed to get allowance", "failed to get allowance for conditional tokens",
      "failed to check isApprovedForAll">>

EnableTradingOutcome(lastTime, skipped, queries, batch, tx, err) ==
    [enableTradingLastTime |-> lastTime, skipped |-> skipped,
     queries |-> queries, batch |-> batch, tx |-> tx, err |-> err]

StampedTime_OnSuccess(lastTime, now, err) ==
    IF err = NoErr THEN now ELSE lastTime

\* enableTradingLastTime after a call that was not skipped and ended with
\* err: the assignment comes before every check
StampedTime(lastTime, now, err) == now

\* the end of EnableTrading, the batch built
SendBatch(lastTime, now, queries, batch, multisendFails) ==
    IF batch = <<>>
    THEN EnableTradingOutcome(StampedTime(lastTime, now, NoErr), FALSE,
                              queries, batch, None, NoErr)
    ELSE IF multisendFails
    THEN EnableTradingOutcome(
             StampedTime(lastTime, now, "failed to execute multisend"), FALSE,
             queries + 1, batch, None, "failed to execute multisend")
    ELSE EnableTradingOutcome(StampedTime(lastTime, now, NoErr), FALSE,
                              queries + 1, batch, [multiSend |-> batch], NoErr)

\* EnableTrading at time now; order is the order in which the map is
\* visited; failAt names the RPC query that fails: 0 none, 1 the gas
\* check, 1 + k the k-th query of the loop, one more the multisend
EnableTrading(cc, lastTime, now, chain, order, failAt) ==
    IF lastTime # ZeroTime /\ now - lastTime < cc.enableTradingCheckInterval
    THEN EnableTradingOutcome(lastTime, TRUE, 0, <<>>, None, NoErr)
    ELSE IF failAt = 1
    THEN EnableTradingOutcome(
             StampedTime(lastTime, now, "insufficient gas balance"), FALSE, 1,
             <<>>, None, "insufficient gas balance")
    ELSE IF failAt \in 2..(1 + 3 * Len(order))
    THEN EnableTradingOutcome(
             StampedTime(lastTime, now, QueryErrors[((failAt - 2) % 3) + 1]),
             FALSE, failAt, <<>>, None, QueryErrors[((failAt - 2) % 3) + 1])
    ELSE SendBatch(lastTime, now, 1 + 3 * Len(order),
                   MultiSendTxs(cc, chain, order), failAt = 2 + 3 * Len(order))

\* the quote tokens, their exchange, and the ConditionalTokens contract
QuoteTokens == {"T1", "T2"}

\* supportedQuoteTokens: quote token address -> CTF exchange address
TokenMaps == {[t \in S |-> "EX"] : S \in SUBSET QuoteTokens}

CheckIntervals == {1, 2}

ContractCallers ==
    {[enableTradingCheckInterval |-> i, tokens |-> m,
      conditionalTokensAddr |-> "CT"] : i \in CheckIntervals, m \in TokenMaps}

\* the allowances around the threshold 10^27: none, a little, just below,
\* at the threshold
AllowanceValues ==
    {NewInt(0), NewInt(1), bigInt(FALSE, natSub(natPow10(27), <<1>>)),
     bigInt(FALSE, natPow10(27))}

\* the allowances tried for a token: all of them for T1, one below and
\* one at the threshold for T2
AllowanceValuesOf(token) ==
    IF token = "T1" THEN AllowanceValues
    ELSE {NewInt(1), bigInt(FALSE, natPow10(27))}

\* what the chain answers for the tokens of a map
ChainAnswers(tokens) ==
    {c \in [allowance : [DOMAIN tokens -> [{"EX", "CT"} -> AllowanceValues]],
            isApprovedForAll : [DOMAIN tokens -> BOOLEAN]] :
        \A t \in DOMAIN tokens : \A p \in {"EX", "CT"} :
            c.allowance[t][p] \in AllowanceValuesOf(t)}

\* the orders in which range can visit a map
VisitOrders(tokens) ==
    {o \in [1..Cardinality(DOMAIN tokens) -> DOMAIN tokens] :
        \A i, j \in DOMAIN o : o[i] = o[j] => i = j}

InitTrading ==
    /\ fn = "ContractCaller.EnableTrading"
    /\ \E cc \in ContractCallers :
          in \in {[cc |-> cc, chain |-> c] : c \in ChainAnswers(cc.tokens)}
    /\ pc = "call"
    /\ out = [now |-> 1, enableTradingLastTime |-> ZeroTime, calls |-> 0,
              checked |-> ZeroTime, last |-> None]

\* the caller's state after a call with the given outcome
AfterEnableTrading(o, outcome) ==
    [o EXCEPT !.last = outcome, !.calls = @ + 1,
              !.checked = IF outcome.skipped THEN @ ELSE o.now,
              !.enableTradingLastTime = outcome.enableTradingLastTime]

CallEnableTrading ==
    /\ fn = "ContractCaller.EnableTrading"
    /\ out.calls < MaxEnableTrading
    /\ \E order \in VisitOrders(in.cc.tokens),
          failAt \in 0..(2 + 3 * Cardinality(DOMAIN in.cc.tokens)) :
          out' = AfterEnableTrading(
                     out, EnableTrading(in.cc, out.enableTradingLastTime,
                                        out.now, in.chain, order, failAt))
    /\ UNCHANGED <<fn, in, pc>>

\* an hour passes
TickHour ==
    /\ fn = "ContractCaller.EnableTrading"
    /\ out.now < MaxHours
    /\ out' = [out EXCEPT !.now = @ + 1]
    /\ UNCHANGED <<fn, in, pc>>

NextTrading == CallEnableTrading \/ TickHour

SpecTrading == InitTrading /\ [][NextTrading]_vars

(***************************************************************************)
(* EnableTrading: properties.                                              *)
(***************************************************************************)
\* EnableTrading is called in this step
EnableTradingCalled == out'.calls = out.calls + 1

\* Claim C21: a call of EnableTrading made less than
\* enableTradingCheckInterval after the previous call that was not
\* skipped makes no RPC query, builds and sends nothing and returns no
\* transaction and no error; the first call, and a call at or after the
\* interval, is not skipped and makes its checks.
C21_SkippedWithinInterval ==
    [][EnableTradingCalled =>
          IF /\ out.checked # ZeroTime
             /\ out.now - out.checked < in.cc.enableTradingCheckInterval
          THEN /\ out'.last.skipped
               /\ out'.last.queries = 0
               /\ out'.last.batch = <<>>
               /\ out'.last.tx = None
               /\ out'.last.err = NoErr
          ELSE /\ ~out'.last.skipped
               /\ out'.last.queries >= 1]_vars

\* a skipped call after a call that failed
C21_Witness ==
    /\ out.calls >= 2
    /\ out.last.skipped
    /\ out.checked # ZeroTime
    /\ out.now > out.checked

\* Claim C22: a call of EnableTrading that returns an error leaves
\* enableTradingLastTime as it was.
C22_FailureKeepsTimestamp ==
    [][EnableTradingCalled /\ out'.last.err # NoErr =>
          out'.enableTradingLastTime = out.enableTradingLastTime]_vars

\* the last call of EnableTrading got as far as its batch
BatchBuilt ==
    /\ out.last # None
    /\ ~out.last.skipped
    /\ out.last.err \in {NoErr, "failed to execute multisend"}

\* the positions of the batch that approve amount of token for spender
ApprovePositions(batch, token, spender, amount) ==
    {i \in 1..Len(batch) :
        /\ batch[i].To = token
        /\ batch[i].Data.method = "approve"
        /\ batch[i].Data.spender = spender
        /\ batch[i].Data.amount = amount}

BelowThreshold(allowance) ==
    Cmp(allowance, bigInt(FALSE, natPow10(9 + DefaultTokenDecimals))) < 0

ApprovalsAsStated(batch, token, spender, allowance) ==
    /\ Cardinality(ApprovePositions(batch, token, spender, UnlimitedApproval))
           = (IF BelowThreshold(allowance) THEN 1 ELSE 0)
    /\ Cardinality(ApprovePositions(batch, token, spender, NewInt(0)))
           = (IF BelowThreshold(allowance) /\ Sign(allowance) > 0
              THEN 1 ELSE 0)
    /\ \A i \in ApprovePositions(batch, token, spender, NewInt(0)) :
           i + 1 \in ApprovePositions(batch, token, spender, UnlimitedApproval)

\* Claim C23: in the batch of EnableTrading, for each quote token and each
\* of its two spenders (the CTF exchange and ConditionalTokens), an
\* approve(spender, 2^256 - 1) is queued exactly when the allowance is
\* below 10^9 * 10^decimals; when that allowance is positive an
\* approve(spender, 0) of the same token and spender stands immediately
\* before it, and no approve(spender, 0) is queued otherwise.
C23_ApprovalBatch ==
    BatchBuilt =>
        \A token \in DOMAIN in.cc.tokens :
            \A spender \in {in.cc.tokens[token], in.cc.conditionalTokensAddr} :
                ApprovalsAsStated(out.last.batch, token, spender,
                                  in.chain.allowance[token][spender])

\* a batch with a reset before an unlimited approval, and a spender whose
\* allowance is high enough and needs nothing
C23_Witness ==
    /\ BatchBuilt
    /\ \E token \in DOMAIN in.cc.tokens :
           /\ ApprovePositions(out.last.batch, token, "EX", NewInt(0)) # {}
           /\ ~BelowThreshold(in.chain.allowance[token]["CT"])
           /\ ApprovePositions(out.last.batch, token, "CT", UnlimitedApproval)
                  = {}

(***************************************************************************)
(* Client.PlaceOrdersBatch.  An order is a PlaceOrderDataInput reduced to  *)
(* its market and its limit price (an integer here); PlaceOrder is reduced *)
(* to its approval step, its price validation and the answer of the API.   *)
(* The state (out) holds the loop index, the results appended so far, the  *)
(* number of EnableTrading calls made, whether that call failed, the       *)
(* orders handed to PlaceOrder, and the returned pair.                     *)
(***************************************************************************)
MaxOrders == 3

BatchOrderResult_CountFromOne(i, order, result, err) ==
    [Index |-> i + 1, Success |-> err = NoErr, Result |-> result,
     Error |-> err, Order |-> order]

\* the element appended for the order at index i (from 0)
BatchOrderResult(i, order, result, err) ==
    [Index |-> i, Success |-> err = NoErr, Result |-> result, Error |-> err,
     Order |-> order]

\* Client.PlaceOrder: the EnableTrading calls it makes, its result, its error
PlaceOrder(data, checkApproval, enableFails, apiFails) ==
    IF checkApproval /\ enableFails
    THEN [enableTrading |-> 1, result |-> None, err |-> "enable trading"]
    ELSE IF data.Price <= 0
    THEN [enableTrading |-> IF checkApproval THEN 1 ELSE 0, result |-> None,
          err |-> "Price must be positive for limit orders"]
    ELSE IF apiFails
    THEN [enableTrading |-> IF checkApproval THEN 1 ELSE 0, result |-> None,
          err |-> "api"]
    ELSE [enableTrading |-> IF checkApproval THEN 1 ELSE 0,
          result |-> [placed |-> data], err |-> NoErr]

\* the state after one round of the loop, PlaceOrder having answered
AfterPlaceOrder(o, order, placed) ==
    [o EXCEPT !.i = @ + 1,
              !.placed = Append(@, order),
              !.enableTrading = @ + placed.enableTrading,
              !.results = Append(@, BatchOrderResult(o.i, order, placed.result,
                                                     placed.err))]

PlaceOrderInputs ==
    {[MarketID |-> m, Price |-> p] : m \in {1, 2}, p \in {0, 5}}

RECURSIVE OrderLists(_)
OrderLists(n) ==
    IF n = 0 THEN {<<>>}
    ELSE OrderLists(n - 1)
         \cup {Append(l, d) : l \in {k \in OrderLists(n - 1) : Len(k) = n - 1},
                              d \in PlaceOrderInputs}

InitBatch ==
    /\ fn = "Client.PlaceOrdersBatch"
    /\ in \in {[orders |-> l, checkApproval |-> c] :
                  l \in OrderLists(MaxOrders), c \in BOOLEAN}
    /\ pc = "begin"
    /\ out = [i |-> 0, results |-> <<>>, enableTrading |-> 0,
              enableFailed |-> FALSE, placed |-> <<>>, ret |-> None,
              err |-> NoErr]

\* the empty list is refused
BatchEmpty ==
    /\ pc = "begin"
    /\ Len(in.orders) = 0
    /\ pc' = "done"
    /\ out' = [out EXCEPT !.err = "orders list cannot be empty"]
    /\ UNCHANGED <<fn, in>>

\* EnableTrading fails and the batch returns its error
BatchEnableTradingFails ==
    /\ pc = "begin"
    /\ Len(in.orders) > 0
    /\ in.checkApproval
    /\ pc' = "done"
    /\ out' = [out EXCEPT !.enableTrading = @ + 1, !.enableFailed = TRUE,
                          !.err = "enable trading"]
    /\ UNCHANGED <<fn, in>>

\* EnableTrading succeeds, or is not asked for
BatchEnter ==
    /\ pc = "begin"
    /\ Len(in.orders) > 0
    /\ pc' = "loop"
    /\ out' = [out EXCEPT
                  !.enableTrading = IF in.checkApproval THEN @ + 1 ELSE @]
    /\ UNCHANGED <<fn, in>>

\* one round of the loop
BatchPlaceOrder ==
    /\ pc = "loop"
    /\ out.i < Len(in.orders)
    /\ \E apiFails \in BOOLEAN :
           out' = AfterPlaceOrder(out, in.orders[out.i + 1],
                                  PlaceOrder(in.orders[out.i + 1], FALSE,
                                             FALSE, apiFails))
    /\ UNCHANGED <<fn, in, pc>>

BatchReturn ==
    /\ pc = "loop"
    /\ out.i = Len(in.orders)
    /\ pc' = "done"
    /\ out' = [out EXCEPT !.ret = out.results]
    /\ UNCHANGED <<fn, in>>

NextBatch ==
    \/ BatchEmpty
    \/ BatchEnableTradingFails
    \/ BatchEnter
    \/ BatchPlaceOrder
    \/ BatchReturn

SpecBatch == InitBatch /\ [][NextBatch]_vars

(***************************************************************************)
(* PlaceOrdersBatch: properties.                                           *)
(***************************************************************************)
\* one result per order, in order, each with its index and its order, a
\* failed order marked and every order handed to PlaceOrder
ResultsMatchOrders ==
    /\ out.err = NoErr
    /\ Len(out.ret) = Len(in.orders)
    /\ out.placed = in.orders
    /\ \A k \in 1..Len(in.orders) :
           /\ out.ret[k].Index = k - 1
           /\ out.ret[k].Order = in.orders[k]
           /\ out.ret[k].Success = (out.ret[k].Error = NoErr)
           /\ in.orders[k].Price <= 0 => ~out.ret[k].Success

ApprovalCheckedOnce ==
    out.enableTrading = (IF in.checkApproval THEN 1 ELSE 0)

EmptyListRefused ==
    /\ out.err = "orders list cannot be empty"
    /\ out.ret = None
    /\ out.placed = <<>>
    /\ out.enableTrading = 0

maxPageLimit == 20
maxPages == 100

Min(a, b) == IF a < b THEN a ELSE b

\* the open orders of one page of the server
PageOrders(server, page) ==
    [k \in 1..(Min(page * maxPageLimit, server.total)
               - Min((page - 1) * maxPageLimit, server.total)) |->
        [order_id |-> (page - 1) * maxPageLimit + k,
         side |-> 2 - (((page - 1) * maxPageLimit + k) % 2)]]

\* Client.GetMyOrders(market, "1", 20, page)
GetMyOrders(server, page) ==
    IF page = server.failingPage
    THEN [response |-> None, err |-> "api"]
    ELSE IF page = server.malformedPage
    THEN [response |-> [result |-> [error |-> "malformed"]], err |-> NoErr]
    ELSE [response |-> [result |-> [list |-> PageOrders(server, page)]],
          err |-> NoErr]

parseOrdersList(response) ==
    IF "list" \notin DOMAIN response.result
    THEN [orders |-> <<>>, ok |-> FALSE]
    ELSE [orders |-> response.result.list, ok |-> TRUE]

\* the ids of the orders of a page that pass the side filter, in order
RECURSIVE FilteredIDs(_, _, _)
FilteredIDs(orders, side, k) ==
    IF k > Len(orders) THEN <<>>
    ELSE (IF side # None /\ orders[k].side # side[1] THEN <<>>
          ELSE <<orders[k].order_id>>)
         \o FilteredIDs(orders, side, k + 1)

PageLimitReached_Never(page) == FALSE

\* the loop condition page <= maxPages has become false
PageLimitReached(page) == page > maxPages

\* the loop of CancelAllOrders after the page is fetched and found usable
AfterPage(o, orders, side) ==
    [o EXCEPT !.allOrderIDs = @ \o FilteredIDs(orders, side, 1),
              !.page = IF Len(orders) < maxPageLimit THEN @ ELSE @ + 1,
              !.collecting = /\ Len(orders) >= maxPageLimit
                             /\ ~PageLimitReached(o.page + 1)]

\* CancelOrdersBatch: one result per id
BatchCancelResults(ids, failing) ==
    [k \in 1..Len(ids) |->
        [Index |-> k - 1, Success |-> ~failing[(k % 2) + 1],
         OrderID |-> ids[k]]]

Count(results, success) ==
    Cardinality({k \in 1..Len(results) : results[k].Success = success})

CancelAllOrdersResult(ids, results) ==
    [TotalOrders |-> Len(ids), Cancelled |-> Count(results, TRUE),
     Failed |-> Count(results, FALSE), Results |-> results]

Servers ==
    {[total |-> t, failingPage |-> f, malformedPage |-> m] :
        t \in {0, 7, 20, 27, 40, 1987, 2000, 2020},
        f \in {0, 1, 2, 100}, m \in {0, 2, 3}}

InitCancel ==
    /\ fn = "Client.CancelAllOrders"
    /\ in \in {[server |-> s, side |-> d] : s \in Servers, d \in {None, <<1>>}}
    /\ pc = "collect"
    /\ out = [page |-> 1, collecting |-> TRUE, allOrderIDs |-> <<>>,
              fetched |-> <<>>, cancelCalls |-> <<>>, ret |-> None,
              err |-> NoErr]

\* GetMyOrders fails: the error is returned
FetchPageError ==
    /\ pc = "collect"
    /\ GetMyOrders(in.server, out.page).err # NoErr
    /\ pc' = "done"
    /\ out' = [out EXCEPT !.fetched = Append(@, out.page),
                          !.collecting = FALSE,
                          !.err = "failed to get open orders page"]
    /\ UNCHANGED <<fn, in>>

\* the page cannot be parsed or is empty: the loop is left
FetchPageBreak ==
    /\ pc = "collect"
    /\ GetMyOrders(in.server, out.page).err = NoErr
    /\ \/ ~parseOrdersList(GetMyOrders(in.server, out.page).response).ok
       \/ Len(parseOrdersList(
                  GetMyOrders(in.server, out.page).response).orders) = 0
    /\ pc' = "cancel"
    /\ out' = [out EXCEPT !.fetched = Append(@, out.page),
                          !.collecting = FALSE]
    /\ UNCHANGED <<fn, in>>

\* the page holds orders: they are collected, and the loop goes on when
\* the page is full and the page limit is not reached
FetchPage ==
    /\ pc = "collect"
    /\ GetMyOrders(in.server, out.page).err = NoErr
    /\ parseOrdersList(GetMyOrders(in.server, out.page).response).ok
    /\ Len(parseOrdersList(
               GetMyOrders(in.server, out.page).response).orders) > 0
    /\ out' = AfterPage(
                  [out EXCEPT !.fetched = Append(@, out.page)],
                  parseOrdersList(
                      GetMyOrders(in.server, out.page).response).orders,
                  in.side)
    /\ pc' = IF out'.collecting THEN "collect" ELSE "cancel"
    /\ UNCHANGED <<fn, in>>

\* nothing was collected
CancelNothing ==
    /\ pc = "cancel"
    /\ Len(out.allOrderIDs) = 0
    /\ pc' = "done"
    /\ out' = [out EXCEPT !.ret = CancelAllOrdersResult(<<>>, <<>>)]
    /\ UNCHANGED <<fn, in>>

\* CancelOrdersBatch over the collected ids, then the counts
CancelCollected ==
    /\ pc = "cancel"
    /\ Len(out.allOrderIDs) > 0
    /\ pc' = "done"
    /\ \E failing \in [1..2 -> BOOLEAN] :
           out' = [out EXCEPT
                      !.cancelCalls = out.allOrderIDs,
                      !.ret = CancelAllOrdersResult(
                                  out.allOrderIDs,
                                  BatchCancelResults(out.allOrderIDs,
                                                     failing))]
    /\ UNCHANGED <<fn, in>>

NextCancel ==
    \/ FetchPageError
    \/ FetchPageBreak
    \/ FetchPage
    \/ CancelNothing
    \/ CancelCollected

SpecCancel == InitCancel /\ [][NextCancel]_vars

\* every call of the API returns, and the function runs on after it
SpecCancelLive == SpecCancel /\ WF_vars(NextCancel)

(***************************************************************************)
(* CancelAllOrders: properties.                                            *)
(***************************************************************************)
\* the number of open orders the server has for a page of 20
ServerPageSize(server, page) ==
    IF server.total <= 20 * (page - 1) THEN 0
    ELSE IF server.total >= 20 * page THEN 20
    ELSE server.total - 20 * (page - 1)

\* a page that ends the collection: not parsable, empty or short
StopPage(server, page) ==
    \/ page = server.malformedPage
    \/ ServerPageSize(server, page) < 20

C25_Collection ==
    /\ Len(out.fetched) <= 100
    /\ \A i \in 1..Len(out.fetched) : out.fetched[i] = i
    /\ \A i \in 1..(Len(out.fetched) - 1) :
           i # in.server.failingPage /\ ~StopPage(in.server, i)
    /\ pc # "collect" =>
           /\ Len(out.fetched) >= 1
           /\ \/ Len(out.fetched) = in.server.failingPage
              \/ StopPage(in.server, Len(out.fetched))
              \/ Len(out.fetched) = 100
    /\ pc = "collect" => out.cancelCalls = <<>>
    /\ out.cancelCalls # <<>> => pc = "done" /\ out.err = NoErr
    /\ (in.server.failingPage \in 1..Len(out.fetched)) =>
           /\ pc = "done"
           /\ out.err # NoErr
           /\ out.ret = None
           /\ out.cancelCalls = <<>>

\* Claim C25: CancelAllOrders always terminates.  It fetches pages 1, 2,
\* ... in order, goes on only after a page that was fetched, parsed and
\* held 20 orders, never fetches more than 100 pages, calls CancelOrder
\* only when the collection has ended, and returns an error without
\* cancelling anything when the fetch of a page fails.
C25_CancelAllTerminates == []C25_Collection /\ <>(pc = "done")

\* a hundred full pages fetched and their orders handed to CancelOrder
C25_Witness ==
    /\ pc = "done"
    /\ Len(out.fetched) = 100
    /\ in.server.total > 2000
    /\ Len(out.cancelCalls) = 2000

(***************************************************************************)
(* WSClient: subscriptions and automatic reconnection.  Two goroutines of  *)
(* the caller subscribe and unsubscribe; the read loop detects the loss of *)
(* the connection and starts attemptReconnect.  Durations are in seconds.  *)
(* The state (out) holds isConnected, the subscriptions map,               *)
(* reconnectAttempt and, for the properties, what went over the wire and   *)
(* what was reported: the action of the last message sent for each key,    *)
(* the number of calls and of connection losses, and since the last loss   *)
(* the number of dials, the time slept before the coming dial, the         *)
(* OnError reports of the end of the attempts, and the record of the last  *)
(* resubscribe.  pc holds the position of each goroutine.                  *)
(***************************************************************************)
DefaultReconnectInterval == 5
DefaultMaxReconnectAttempts == 10
MaxWSCalls == 3
MaxLosses == 2

ActionSubscribe == "SUBSCRIBE"
ActionUnsubscribe == "UNSUBSCRIBE"
ChannelOrderUpdate == "trade.order.update"

\* NewWSClient: the configuration with its defaults
NewWSClient(config) ==
    [ReconnectInterval |->
         IF config.ReconnectInterval = 0 THEN DefaultReconnectInterval
         ELSE config.ReconnectInterval,
     MaxReconnectAttempts |->
         IF config.MaxReconnectAttempts = 0 THEN DefaultMaxReconnectAttempts
         ELSE config.MaxReconnectAttempts]

\* the key of the subscriptions map, fmt.Sprintf("<kind>:%s:%d", ...)
SubscriptionKey(kind, channel, id) == <<kind, channel, id>>

\* SubscribeBinaryMessage and SubscribeCategoricalMessage
SubscribeMessage(action, key) ==
    IF key[1] = "binary"
    THEN [Action |-> action, Channel |-> key[2], MarketID |-> key[3]]
    ELSE [Action |-> action, Channel |-> key[2], RootMarketID |-> key[3]]

\* the error of sendMessage
sendMessage(ws, msg, writeFails) ==
    IF ~ws.isConnected THEN "WebSocket not connected"
    ELSE IF writeFails THEN "failed to send message"
    ELSE NoErr

\* ws.subscriptions[key] = msg
MapPut(m, key, msg) ==
    [k \in DOMAIN m \cup {key} |-> IF k = key THEN msg ELSE m[k]]

\* delete(ws.subscriptions, key)
MapDelete(m, key) == [k \in DOMAIN m \ {key} |-> m[k]]

\* the map after Subscribe or Unsubscribe has sent its message
TrackedAfter(m, action, key) ==
    IF action = ActionSubscribe
    THEN MapPut(m, key, SubscribeMessage(ActionSubscribe, key))
    ELSE MapDelete(m, key)

\* the loop condition of attemptReconnect
MayAttempt_OneMore(attempt, max) == attempt <= max

MayAttempt(attempt, max) == attempt < max

\* resubscribe: the keys whose message went out and those that failed
Resubscribed(ws, subscriptions, failing) ==
    [tracked |-> DOMAIN subscriptions,
     sent |-> IF ~ws.isConnected THEN {}
              ELSE {subscriptions[k] : k \in DOMAIN subscriptions \ failing},
     errors |-> IF ~ws.isConnected THEN Cardinality(DOMAIN subscriptions)
                ELSE Cardinality(failing)]

WSKeys ==
    {SubscriptionKey(kind, ChannelOrderUpdate, 1) :
        kind \in {"binary", "categorical"}}

WSUsers == {"u1", "u2"}

WSConfigs ==
    {[ReconnectInterval |-> 0, MaxReconnectAttempts |-> 0],
     [ReconnectInterval |-> 1, MaxReconnectAttempts |-> 1],
     [ReconnectInterval |-> 2, MaxReconnectAttempts |-> 2]}

NoMap == [k \in {} |-> None]

InitWS ==
    /\ fn = "WSClient"
    /\ in \in {[config |-> NewWSClient(c)] : c \in WSConfigs}
    /\ pc = [users |-> [g \in WSUsers |-> None], reconnect |-> "none",
             resubscribe |-> 0]
    /\ out = [isConnected |-> FALSE, subscriptions |-> NoMap,
              reconnectAttempt |-> 0,
              lastSent |-> [k \in WSKeys |-> ""],
              calls |-> 0, err |-> NoErr,
              losses |-> 0, dials |-> 0, slept |-> 0, maxReached |-> 0,
              resent |-> None]

\* Connect by the caller, the dial succeeding
Connect ==
    /\ ~out.isConnected
    /\ out.losses = 0
    /\ out' = [out EXCEPT !.isConnected = TRUE, !.reconnectAttempt = 0]
    /\ UNCHANGED <<fn, in, pc>>

\* the state after sendMessage has returned err to Subscribe or Unsubscribe
AfterSend(o, g, action, key, err) ==
    [o EXCEPT !.calls = @ + 1, !.err = err,
              !.lastSent[key] = IF err = NoErr THEN action ELSE @]

\* the caller's goroutine goes on to the map only when the message went out
AfterSendAt(p, g, action, key, err) ==
    [p EXCEPT !.users[g] = IF err = NoErr
                           THEN [action |-> action, key |-> key] ELSE None]

\* the first half of SubscribeBinary and SubscribeCategorical: sendMessage
CallSubscribe ==
    \E g \in WSUsers, key \in WSKeys, writeFails \in BOOLEAN :
        /\ pc.users[g] = None
        /\ out.calls < MaxWSCalls
        /\ out' = AfterSend(out, g, ActionSubscribe, key,
                            sendMessage(out, SubscribeMessage(ActionSubscribe,
                                                              key), writeFails))
        /\ pc' = AfterSendAt(pc, g, ActionSubscribe, key, out'.err)
        /\ UNCHANGED <<fn, in>>

\* the first half of UnsubscribeBinary and UnsubscribeCategorical
CallUnsubscribe ==
    \E g \in WSUsers, key \in WSKeys, writeFails \in BOOLEAN :
        /\ pc.users[g] = None
        /\ out.calls < MaxWSCalls
        /\ out' = AfterSend(out, g, ActionUnsubscribe, key,
                            sendMessage(out,
                                        SubscribeMessage(ActionUnsubscribe,
                                                         key), writeFails))
        /\ pc' = AfterSendAt(pc, g, ActionUnsubscribe, key, out'.err)
        /\ UNCHANGED <<fn, in>>

\* the second half: the map is updated under subMu
TrackRequest ==
    \E g \in WSUsers :
        /\ pc.users[g] # None
        /\ out' = [out EXCEPT
                      !.subscriptions =
                          TrackedAfter(@, pc.users[g].action,
                                       pc.users[g].key)]
        /\ pc' = [pc EXCEPT !.users[g] = None]
        /\ UNCHANGED <<fn, in>>

\* readLoop meets a read error: handleDisconnect, go attemptReconnect
ConnectionLost ==
    /\ out.isConnected
    /\ out.losses < MaxLosses
    /\ out' = [out EXCEPT !.isConnected = FALSE, !.losses = @ + 1,
                          !.dials = 0, !.slept = 0, !.maxReached = 0]
    /\ pc' = [pc EXCEPT !.reconnect = "loop"]
    /\ UNCHANGED <<fn, in>>

\* the head of the loop of attemptReconnect, and its end
ReconnectLoop ==
    /\ pc.reconnect = "loop"
    /\ IF MayAttempt(out.reconnectAttempt, in.config.MaxReconnectAttempts)
       THEN /\ out' = [out EXCEPT !.reconnectAttempt = @ + 1]
            /\ pc' = [pc EXCEPT !.reconnect = "wait"]
       ELSE /\ out' = [out EXCEPT !.maxReached = @ + 1]
            /\ pc' = [pc EXCEPT !.reconnect = "none"]
    /\ UNCHANGED <<fn, in>>

\* time.After(ReconnectInterval) fires
ReconnectWait ==
    /\ pc.reconnect = "wait"
    /\ out' = [out EXCEPT !.slept = @ + in.config.ReconnectInterval]
    /\ pc' = [pc EXCEPT !.reconnect = "dial"]
    /\ UNCHANGED <<fn, in>>

\* Connect fails: the error is reported and the loop goes on
ReconnectFails ==
    /\ pc.reconnect = "dial"
    /\ out' = [out EXCEPT !.dials = @ + 1, !.slept = 0]
    /\ pc' = [pc EXCEPT !.reconnect = "loop"]
    /\ UNCHANGED <<fn, in>>

\* Connect succeeds: a new read loop runs, resubscribe comes next
ReconnectSucceeds ==
    /\ pc.reconnect = "dial"
    /\ out' = [out EXCEPT !.dials = @ + 1, !.slept = 0,
                          !.isConnected = TRUE, !.reconnectAttempt = 0]
    /\ pc' = [pc EXCEPT !.reconnect = "none", !.resubscribe = @ + 1]
    /\ UNCHANGED <<fn, in>>

\* resubscribe, under the read lock of subMu
Resubscribe ==
    /\ pc.resubscribe > 0
    /\ \E failing \in SUBSET DOMAIN out.subscriptions :
           out' = [out EXCEPT
                      !.resent = Resubscribed(out, out.subscriptions, failing)]
    /\ pc' = [pc EXCEPT !.resubscribe = @ - 1]
    /\ UNCHANGED <<fn, in>>

NextWS ==
    \/ Connect
    \/ CallSubscribe
    \/ CallUnsubscribe
    \/ TrackRequest
    \/ ConnectionLost
    \/ ReconnectLoop
    \/ ReconnectWait
    \/ ReconnectFails
    \/ ReconnectSucceeds
    \/ Resubscribe

SpecWS == InitWS /\ [][NextWS]_vars

(***************************************************************************)
(* WSClient: properties.                                                   *)
(***************************************************************************)
\* no call for the key stands between its message and the map
Settled(key) ==
    \A g \in WSUsers :
        IF pc.users[g] = None THEN TRUE ELSE pc.users[g].key # key

\* Claim C26: a key is in the subscriptions map exactly when the last
\* Subscribe or Unsubscribe call for it whose message was sent was a
\* Subscribe (looked at while no call for the key is under way).
C26_TracksLastSent ==
    \A key \in WSKeys :
        Settled(key) =>
            (key \in DOMAIN out.subscriptions
                 <=> out.lastSent[key] = ActionSubscribe)

\* a call whose send fails returns the error and leaves the map alone
C26_FailedSendKeepsMap ==
    [][out'.calls = out.calls + 1 /\ out'.err # NoErr =>
          /\ out'.subscriptions = out.subscriptions
          /\ pc'.users = pc.users]_vars

ReconnectBounds ==
    /\ out.dials <= in.config.MaxReconnectAttempts
    /\ out.maxReached <= 1
    /\ out.maxReached = 1 =>
           /\ out.dials = in.config.MaxReconnectAttempts
           /\ ~out.isConnected
           /\ pc.reconnect = "none"
    /\ (out.losses > 0 /\ ~out.isConnected /\ pc.reconnect = "none") =>
           out.maxReached = 1
    /\ out.isConnected => out.reconnectAttempt = 0 /\ pc.reconnect = "none"

ReconnectSteps ==
    /\ out'.dials = out.dials + 1 =>
           /\ out.slept = in.config.ReconnectInterval
           /\ out'.isConnected =>
                  out'.reconnectAttempt = 0 /\ pc'.reconnect = "none"
    /\ out.maxReached = 1 => out'.dials = out.dials

\* Claim C27: after the read loop has detected the loss of the
\* connection, at most MaxReconnectAttempts dials are made, each after a
\* wait of ReconnectInterval; the first success ends them and sets
\* reconnectAttempt to 0; when all have failed 'max reconnect attempts
\* reached' is reported once through OnError and no further dial is made.
C27_BoundedReconnect == []ReconnectBounds /\ [][ReconnectSteps]_vars

\* all ten attempts of the default configuration failed, after a first
\* loss that was repaired
C27_Witness ==
    /\ out.losses = 2
    /\ out.maxReached = 1
    /\ out.dials = DefaultMaxReconnectAttempts

\* resubscribe runs in this step
Resubscribing == pc'.resubscribe = pc.resubscribe - 1

\* resubscribe sends the SUBSCRIBE message of every key of the map, and of
\* no other key; each message that cannot be sent is one OnError report,
\* and the others are still sent
ResubscribeSendsTracked ==
    /\ out'.resent.tracked = DOMAIN out.subscriptions
    /\ out'.resent.sent \subseteq
           {SubscribeMessage(ActionSubscribe, k) :
               k \in DOMAIN out.subscriptions}
    /\ Cardinality(out'.resent.sent) + out'.resent.errors
           = Cardinality(DOMAIN out.subscriptions)
    /\ out.isConnected =>
           out'.resent.errors < Cardinality(DOMAIN out.subscriptions)
           \/ out'.resent.sent = {}

\* no SUBSCRIBE goes out for a key whose last request sent was an
\* Unsubscribe that has returned
NoneUnsubscribedResent ==
    \A key \in WSKeys :
        (out.lastSent[key] = ActionUnsubscribe /\ Settled(key)) =>
            SubscribeMessage(ActionSubscribe, key) \notin out'.resent.sent

C28_ResubscribeTracked == [][Resubscribing => ResubscribeSendsTracked]_vars

\* Claim C28: after a reconnect that succeeded, resubscribe sends SUBSCRIBE
\* for every key that is in the subscriptions map at that moment and for
\* none that was unsubscribed before; a message that cannot be sent is
\* reported through OnError and the others are still sent.
C28_Resubscribe ==
    [][Resubscribing =>
          ResubscribeSendsTracked /\ NoneUnsubscribedResent]_vars

====
